---- MODULE Spec2Model ----
(***************************************************************************)
(* Query builder, filter compiler and reference resolver of the Stack      *)
(* class (src/src/stack.ts) with the cycle detector checkCyclic            *)
(* (src/dist/util.js), as a state machine.                                 *)
(*                                                                         *)
(* JavaScript objects ({}) are functions whose DOMAIN is the set of keys   *)
(* that are set; a key that is not in the DOMAIN reads as undefined.       *)
(* The node event loop runs one callback at a time, so every builder call  *)
(* and every completion callback of a store fetch is one atomic action;    *)
(* promise continuations (microtasks) run before the next I/O callback and *)
(* are part of the action that settles the promise.                        *)
(***************************************************************************)
EXTENDS Integers, Sequences, FiniteSets, TLC

\* ------------------------------------------------------------------ bounds

\* Longest path (list index / field index steps) that the resolved tree
\* materialises; a walk that nests deeper is folded (see RefDone).
MaxDepth == 12

\* Most builder calls on one chain before the terminal find()/findOne().
MaxCalls == 3

\* Most builder calls on one chain when the collection is StorePaging.
MaxPagingCalls == 5

\* Most setter calls on one chain when the arguments are under test.
MaxSetterCalls == 2

\* ------------------------------------------------------- program constants

AssetKind == "_assets"

SchemaKind == "contentTypes"

AssetsName == "assets"

\* config.limit / config.skip / config.locales of ./config (defaults).
ConfigLimit == 100

ConfigSkip == 0

Locales == <<"en-us", "fr-fr">>

\* ------------------------------------------------------- sequence helpers

Contains(s, x) == \E i \in 1..Len(s) : s[i] = x

RECURSIVE Uniq(_)
\* lodash uniq: keeps the first occurrence of every element, in order.
Uniq(s) ==
  IF s = <<>> THEN <<>>
  ELSE LET r == Uniq(SubSeq(s, 1, Len(s) - 1))
           x == s[Len(s)]
       IN IF Contains(r, x) THEN r ELSE Append(r, x)

RECURSIVE Filter(_, _)
\* the sub-sequence of s whose elements are in the set keep
Filter(s, keep) ==
  IF s = <<>> THEN <<>>
  ELSE IF Head(s) \in keep THEN <<Head(s)>> \o Filter(Tail(s), keep)
       ELSE Filter(Tail(s), keep)

Range(s) == {s[i] : i \in 1..Len(s)}

\* every ordering of the elements of a finite set
Orderings(S) ==
  {s \in [1..Cardinality(S) -> S] : \A i, j \in 1..Cardinality(S) : s[i] = s[j] => i = j}

Min(a, b) == IF a < b THEN a ELSE b

\* --------------------------------------------------------- object helpers

EmptyObj == [k \in {} |-> TRUE]

Has(o, k) == k \in DOMAIN o

Put(o, k, v) == [x \in (DOMAIN o) \cup {k} |-> IF x = k THEN v ELSE o[x]]

Del(o, k) == [x \in (DOMAIN o) \ {k} |-> o[x]]

\* JavaScript truthiness of a flag (true or undefined) kept in internal
Flag(o, k) == Has(o, k) /\ o[k] = TRUE

\* JavaScript truthiness of a number kept in internal (0 and undefined are falsy)
TruthyNum(o, k) == Has(o, k) /\ o[k] # 0

\* lodash merge of two flat objects: the keys of b override those of a
Merge(a, b) ==
  [k \in (DOMAIN a) \cup (DOMAIN b) |-> IF k \in DOMAIN b THEN b[k] ELSE a[k]]

\* ---------------------------------------------------------- checkCyclic

\* Every uid of the model, in the order in which the keys of an ancestry
\* map are iterated (the order only decides the order of the worklist).
KeyOrder == <<"a", "b", "c", "x", "y", "m">>

AllUids == {KeyOrder[i] : i \in 1..Len(KeyOrder)}

\* getParents(child, mapping): the keys whose child list holds child
getParents(child, mapping) ==
  Filter(KeyOrder, {k \in DOMAIN mapping : Contains(mapping[k], child)})

\* the state of the loop of checkCyclic before its first iteration
checkCyclicStart(uid, mapping) ==
  [uid |-> uid, mapping |-> mapping, list |-> <<uid>>, i |-> 1,
   flag |-> FALSE, pc |-> "loop"]

\* checkCyclicStep without the merge of the parents found into the worklist:
\* only the direct parents of uid are examined
checkCyclicStepShallow(st) ==
  IF st.i > Len(st.list) THEN [st EXCEPT !.pc = "done"]
  ELSE LET parent == getParents(st.list[st.i], st.mapping)
       IN IF Contains(parent, st.uid)
          THEN [st EXCEPT !.flag = TRUE, !.pc = "done"]
          ELSE [st EXCEPT !.i = st.i + 1]

\* checkCyclicStep without uniq: the parents found are appended to the
\* worklist also when it already holds them
checkCyclicStepNoUniq(st) ==
  IF st.i > Len(st.list) THEN [st EXCEPT !.pc = "done"]
  ELSE LET parent == getParents(st.list[st.i], st.mapping)
       IN IF Contains(parent, st.uid)
          THEN [st EXCEPT !.flag = TRUE, !.pc = "done"]
          ELSE [st EXCEPT !.list = st.list \o parent, !.i = st.i + 1]

\* one evaluation of the loop condition and, if it holds, of the loop body
checkCyclicStep(st) ==
  IF st.i > Len(st.list) THEN [st EXCEPT !.pc = "done"]
  ELSE LET parent == getParents(st.list[st.i], st.mapping)
       IN IF Contains(parent, st.uid)
          THEN [st EXCEPT !.flag = TRUE, !.pc = "done"]
          ELSE [st EXCEPT !.list = Uniq(st.list \o parent), !.i = st.i + 1]

RECURSIVE checkCyclicRun(_)
checkCyclicRun(st) ==
  IF st.pc = "done" THEN st.flag ELSE checkCyclicRun(checkCyclicStep(st))

\* checkCyclic(uid, mapping)
checkCyclic(uid, mapping) == checkCyclicRun(checkCyclicStart(uid, mapping))

\* ------------------------------------------------- documents and values

\* undefined / absent string (no uid, no locale, no parent)
NoUid == ""

\* a reference descriptor whose values is an array of uids
Ref(to, uids) ==
  [t |-> "ref", reference_to |-> to, values |-> uids, scalar |-> FALSE]

\* a reference descriptor whose values is one uid string
RefOne(to, uid) ==
  [t |-> "ref", reference_to |-> to, values |-> <<uid>>, scalar |-> TRUE]

\* a document of the collection; fields holds its object-valued fields
Doc(uid, kind, locale, fields) ==
  [t |-> "doc", uid |-> uid, content_type_uid |-> kind, locale |-> locale,
   fields |-> fields]

\* a nested object (a group field): an object without uid
Group(fields) == Doc(NoUid, "", "", fields)

\* an array
List(items) == [t |-> "list", items |-> items]

Null == [t |-> "null"]

Blog(uid, fields) == Doc(uid, "blog", "en-us", fields)

Asset(uid, fields) == Doc(uid, AssetKind, "en-us", fields)

\* the schema document of content type blog (schemas carry no locale)
BlogSchema == Doc("blog", SchemaKind, NoUid, <<>>)

\* The collections the model is run against, each in its natural order.
\* Every one holds the three blog entries a, b, c.
StoreSelf ==
  << Blog("a", <<Ref("blog", <<"a">>)>>), Blog("b", <<>>), Blog("c", <<>>),
     BlogSchema >>

StoreMutual ==
  << Blog("a", <<RefOne("blog", "b")>>), Blog("b", <<RefOne("blog", "a")>>),
     Blog("c", <<>>) >>

StoreRing ==
  << Blog("a", <<Ref("blog", <<"b">>)>>), Blog("b", <<Ref("blog", <<"c">>)>>),
     Blog("c", <<Ref("blog", <<"a">>)>>) >>

StoreMulti ==
  << Blog("a", <<Ref("blog", <<"c", "m", "b">>)>>), Blog("b", <<>>),
     Blog("c", <<RefOne(AssetKind, "x")>>), Asset("x", <<>>), BlogSchema >>

StoreAssets ==
  << Blog("a", <<RefOne(AssetKind, "x"), RefOne("blog", "b")>>),
     Blog("b", <<Group(<<Ref(AssetKind, <<"y", "x">>)>>)>>),
     Blog("c", <<Ref("blog", <<>>), RefOne(AssetKind, "m")>>),
     Asset("x", <<Ref(AssetKind, <<"y">>)>>), Asset("y", <<>>) >>

StoreShared ==
  << Blog("a", <<Ref("blog", <<"b", "c">>)>>), Blog("b", <<Ref("blog", <<"c">>)>>),
     Blog("c", <<Ref("blog", <<"b">>)>>) >>

StoreMixed ==
  << Blog("a", <<RefOne(AssetKind, "x")>>), Blog("b", <<>>), Blog("c", <<>>),
     Asset("x", <<Ref("blog", <<"a">>)>>) >>

StoreAssetCycle ==
  << Blog("a", <<RefOne(AssetKind, "x")>>), Blog("b", <<>>), Blog("c", <<>>),
     Asset("x", <<RefOne(AssetKind, "x")>>) >>

\* three entries that refer to one asset, and the schema of their type
StorePaging ==
  << Blog("a", <<RefOne(AssetKind, "x")>>), Blog("b", <<RefOne(AssetKind, "x")>>),
     Blog("c", <<RefOne(AssetKind, "x")>>), Asset("x", <<>>), BlogSchema >>

\* an entry, two assets of which one refers to the other, and a schema
StoreSingles ==
  << Blog("a", <<RefOne(AssetKind, "x")>>), Asset("x", <<Ref(AssetKind, <<"y">>)>>),
     Asset("y", <<>>), BlogSchema >>

Stores ==
  {StoreSelf, StoreMutual, StoreRing, StoreMulti, StoreAssets, StoreShared,
   StoreMixed, StoreAssetCycle}

\* ------------------------------------------------------- tree navigation

\* the children of an object or array, in property order
Kids(v) == IF v.t = "doc" THEN v.fields ELSE IF v.t = "list" THEN v.items ELSE <<>>

WithKids(v, kids) ==
  IF v.t = "doc" THEN [v EXCEPT !.fields = kids]
  ELSE IF v.t = "list" THEN [v EXCEPT !.items = kids]
  ELSE v

RECURSIVE GetAt(_, _)
\* the value at path (a sequence of property indices) below v
GetAt(v, path) ==
  IF path = <<>> THEN v ELSE GetAt(Kids(v)[Head(path)], Tail(path))

RECURSIVE SetAt(_, _, _)
\* v with the value at path replaced by w (entry[prop] = w)
SetAt(v, path, w) ==
  IF path = <<>> THEN w
  ELSE WithKids(v, [Kids(v) EXCEPT ![Head(path)] = SetAt(@, Tail(path), w)])

\* ------------------------------------------------------------ variables

VARIABLES
  store,        \* the collection 'contents': its documents in natural order
  q,            \* Stack.q
  internal,     \* Stack.internal
  collection,   \* Stack.collection: "null" or the name of the collection
  calls,        \* builder calls made on the chain so far
  phase,        \* "building", "running" (find() was called) or "settled"
  primary,      \* the primary fetch: its state, filter, limit and skip, and
                \* q and internal as preProcess left them for it
  raw,          \* what the store matched and returned for the primary fetch
  result,       \* the result array that includeReferencesI resolves in place
  contentType,  \* find()'s local contentType: the schema document removed
  references,   \* the ancestry map that find() passes to includeReferencesI
  fetches,      \* the reference fetches in flight
  deep,         \* parity of the fetch completions beyond MaxDepth
  outcome,      \* the promise of find(): "pending", "fulfilled", "rejected"
  envelope,     \* what the promise was settled with
  failed,       \* a store fetch of this find() has failed
  cc,           \* the state of one run of checkCyclic (SpecCyclic)
  attempt,      \* the last setter call with an argument under test: the
                \* setter, its arguments, whether it threw, and its place
                \* in the chain (SpecSetters)
  config,       \* the config object that every Stack holds: its projections
  root          \* the Stack constructed first, as far as the caller keeps
                \* it for a later chain: not kept ("no"), the Stack that q,
                \* internal and collection are those of ("this"), or set
                \* aside with its own q, internal and collection ("aside")

vars ==
  <<store, q, internal, collection, calls, phase, primary, raw, result,
    contentType, references, fetches, deep, outcome, envelope, failed, cc, attempt,
    config, root>>

builderVars == <<q, internal, collection>>

runVars ==
  <<primary, raw, result, contentType, references, fetches, deep, outcome,
    envelope, failed>>

NoPrimary == [state |-> "none"]

NoEnvelope == [kind |-> "none"]

\* checkCyclic is not running
CcIdle == [pc |-> "idle"]

\* no setter was called with an argument under test
NoAttempt == [op |-> "none", no |-> 0]

\* config.projections of ./config, the baseline projection
ConfigProjections == Put(EmptyObj, "_id", 0)

\* the config object as the constructor of the first Stack leaves it
ConfigOf == [projections |-> ConfigProjections]

\* the caller makes one chain and does not come back to the root Stack
NoRoot ==
  [kept |-> "no", q |-> EmptyObj, internal |-> EmptyObj, collection |-> "null"]

\* the caller keeps the root Stack, and the calls are made on it
RootIsThis ==
  [kept |-> "this", q |-> EmptyObj, internal |-> EmptyObj, collection |-> "null"]

Init ==
  /\ store \in Stores
  /\ q = EmptyObj
  /\ internal = EmptyObj
  /\ collection = "null"
  /\ calls = 0
  /\ phase = "building"
  /\ primary = NoPrimary
  /\ raw = [matched |-> 0, docs |-> <<>>]
  /\ result = Null
  /\ contentType = Null
  /\ references = EmptyObj
  /\ fetches = {}
  /\ deep = 0
  /\ outcome = "pending"
  /\ envelope = NoEnvelope
  /\ failed = FALSE
  /\ cc = CcIdle
  /\ attempt = NoAttempt
  /\ config = ConfigOf
  /\ root = NoRoot

\* ----------------------------------------------------------- the builder

CollectionName == "contents"

\* the codes of config.locales
LocaleCodes == Range(Locales)

\* uids passed to entry(), asset() and schema(); NoUid stands for no argument
EntryUids == {NoUid, "b"}

AssetUids == {NoUid, "x"}

SchemaUids == {NoUid, "blog"}

LimitArgs == {0, 1, 2}

SkipArgs == {0, 1}

\* queryReferences({'<field i>.uid': uid})
QueryRefs == {[field |-> 1, uid |-> "b"], [field |-> 1, uid |-> "x"]}

\* the raw filters passed to query()
QueryObjects == {[uid |-> "b"]}

\* a builder call is made while the chain is being built
Building ==
  /\ phase = "building"
  /\ calls < (IF store = StorePaging THEN MaxPagingCalls ELSE MaxCalls)

\* the root Stack after a call that returns this ("this") or a Stack that it
\* has constructed ("new"): a call made on the root that returns a new
\* Stack leaves the root with its q, internal and collection
RootAfter(obj) ==
  IF obj = "new" /\ root.kept = "this"
  THEN [kept |-> "aside", q |-> q, internal |-> internal, collection |-> collection]
  ELSE root

\* a call that returns the Stack obj with q, internal and collection as
\* nq, ni and nc
CalledOn(obj, nq, ni, nc) ==
  /\ q' = nq
  /\ internal' = ni
  /\ collection' = nc
  /\ calls' = calls + 1
  /\ root' = RootAfter(obj)
  /\ UNCHANGED <<store, config, phase, cc, attempt>>
  /\ UNCHANGED runVars

\* a call that returns this
Called(nq, ni, nc) == CalledOn("this", nq, ni, nc)

\* a call that returns new Stack(this.config, this.db)
Created(nq, ni, nc) == CalledOn("new", nq, ni, nc)

\* contentType(uid): a new Stack with the content type set
ContentType(uid) ==
  /\ Building
  /\ Created(Put(EmptyObj, "content_type_uid", uid), EmptyObj, CollectionName)

\* assets(): a new Stack on the asset kind
Assets ==
  /\ Building
  /\ Created(Put(EmptyObj, "content_type_uid", AssetKind), EmptyObj, CollectionName)

\* asset(uid?): a new Stack; kind and uid are set only when a uid is given
AssetCall(uid) ==
  /\ Building
  /\ Created(IF uid # NoUid
             THEN Put(Put(EmptyObj, "content_type_uid", AssetKind), "uid", uid)
             ELSE EmptyObj,
             Put(Put(EmptyObj, "limit", 1), "single", TRUE),
             CollectionName)

\* schemas(): sets the schema kind on this Stack
Schemas ==
  /\ Building
  /\ Called(Put(q, "content_type_uid", SchemaKind), internal, CollectionName)

\* schema(uid?): kind and uid are set on this Stack only when a uid is given
SchemaCall(uid) ==
  /\ Building
  /\ Called(IF uid # NoUid
            THEN Put(Put(q, "content_type_uid", SchemaKind), "uid", uid)
            ELSE q,
            Put(Put(internal, "limit", 1), "single", TRUE),
            CollectionName)

\* entry(uid?): throws unless a content type is set
Entry(uid) ==
  /\ Building
  /\ Has(q, "content_type_uid")
  /\ Called(IF uid # NoUid THEN Put(q, "uid", uid) ELSE q,
            Put(Put(internal, "limit", 1), "single", TRUE),
            collection)

\* language(code): throws unless code is one of config.locales
Language(code) ==
  /\ Building
  /\ code \in LocaleCodes
  /\ Called(Put(q, "locale", code), internal, collection)

\* limit(no): throws unless no >= 0 and a content type is set
Limit(no) ==
  /\ Building
  /\ no >= 0
  /\ Has(q, "content_type_uid")
  /\ Called(q, Put(internal, "limit", no), collection)

\* skip(no): throws unless no >= 0 and a content type is set
Skip(no) ==
  /\ Building
  /\ no >= 0
  /\ Has(q, "content_type_uid")
  /\ Called(q, Put(internal, "skip", no), collection)

IncludeCount ==
  /\ Building
  /\ Called(q, Put(internal, "includeCount", TRUE), collection)

IncludeSchema ==
  /\ Building
  /\ Called(q, Put(internal, "includeSchema", TRUE), collection)

IncludeReferences ==
  /\ Building
  /\ Called(q, Put(internal, "includeReferences", TRUE), collection)

ExcludeReferences ==
  /\ Building
  /\ Called(q, Put(internal, "excludeReferences", TRUE), collection)

\* query(queryObject): the raw filter is merged into q.query
Query(queryObject) ==
  /\ Building
  /\ Called(Put(q, "query",
                IF Has(q, "query") THEN Merge(q["query"], queryObject) ELSE queryObject),
            internal, collection)

\* queryReferences(query): throws unless query is an object
QueryReferences(query) ==
  /\ Building
  /\ Called(q, Put(internal, "queryReferences", query), collection)

\* ------------------------------------------------------------ the store

\* the value of a filter key that is set to undefined: the driver sends
\* null, which matches the documents that do not carry the field
Undefined == "<undefined>"

\* {field: want} against a document's field
FieldMatches(have, want) == IF want = Undefined THEN have = NoUid ELSE have = want

\* filters = {content_type_uid, locale, ...q.query} against a document
Matches(doc, filters) ==
  /\ Has(filters, "content_type_uid")
       => FieldMatches(doc.content_type_uid, filters["content_type_uid"])
  /\ Has(filters, "locale") => FieldMatches(doc.locale, filters["locale"])
  /\ Has(filters, "uid") => FieldMatches(doc.uid, filters["uid"])

\* queryFilters: either the filters or {$or: [filters, {uid}]}
MatchesQuery(doc, query) ==
  \/ Matches(doc, query.filters)
  \/ \E i \in 1..Len(query.or) : Matches(doc, query.or[i])

RECURSIVE SelectDocs(_, _)
\* the documents of docs that match query, in the order of docs
SelectDocs(docs, query) ==
  IF docs = <<>> THEN <<>>
  ELSE IF MatchesQuery(Head(docs), query)
       THEN <<Head(docs)>> \o SelectDocs(Tail(docs), query)
       ELSE SelectDocs(Tail(docs), query)

\* cursor.skip(n).limit(m).toArray(): limit(0) is no limit
SkipLimit(docs, skipNo, limitNo) ==
  LET from == Min(skipNo, Len(docs)) + 1
      rest == SubSeq(docs, from, Len(docs))
  IN IF limitNo = 0 THEN rest ELSE SubSeq(rest, 1, Min(limitNo, Len(rest)))

\* the documents a reference fetch {content_type_uid, locale, uid: {$in}} matches
RefMatches(f) ==
  {i \in 1..Len(store) :
     /\ store[i].content_type_uid = f.reference_to
     /\ FieldMatches(store[i].locale, f.locale)
     /\ Contains(f.uids, store[i].uid)}

\* ------------------------------------------------------ includeReferencesI

\* Expandable without the rule for the asset kind
ExpandableByFlagOnly(ref, inc) == inc

\* Expandable without the test of internal.includeReferences
ExpandableAlways(ref, inc) == TRUE

\* Expandable that never expands a descriptor of the asset kind
ExpandableEntriesOnly(ref, inc) == inc /\ ref.reference_to # AssetKind

\* line 1066: the descriptor is expanded
Expandable(ref, inc) ==
  \/ (~inc /\ ref.reference_to = AssetKind)
  \/ inc

\* UidsToFetch without the filter on checkCyclic
UidsToFetchUnchecked(ref, refs) == ref.values

\* lines 1071-1079: the uids to fetch for a descriptor
UidsToFetch(ref, refs) ==
  IF ref.reference_to # AssetKind
  THEN Filter(ref.values, {u \in Range(ref.values) : ~checkCyclic(u, refs)})
  ELSE ref.values

RECURSIVE Walk(_, _, _, _)
RECURSIVE WalkProp(_, _, _, _)

\* One synchronous run of includeReferencesI(entry, locale, references,
\* parentUid) on the value v held at path: the value as the run leaves it and
\* the fetches it issues, nested runs included. ctx holds what the run
\* reads: locale, references and internal.includeReferences.
Walk(v, path, parentUid, ctx) ==
  IF v.t \in {"doc", "list", "ref"}
  THEN LET pu == IF v.t = "doc" /\ v.uid # NoUid THEN v.uid ELSE parentUid
           kids == Kids(v)
           res == [i \in 1..Len(kids) |-> WalkProp(kids[i], path \o <<i>>, pu, ctx)]
       IN [tree |-> WithKids(v, [i \in 1..Len(kids) |-> res[i].tree]),
           fetches |-> UNION {res[i].fetches : i \in 1..Len(kids)}]
  ELSE [tree |-> v, fetches |-> {}]

\* the body of the loop over the properties of entry, for one property
WalkProp(child, path, pu, ctx) ==
  IF child.t = "ref" /\ Expandable(child, ctx.inc)
  THEN IF Len(child.values) = 0
       THEN [tree |-> List(<<>>), fetches |-> {}]
       ELSE LET uids == UidsToFetch(child, ctx.refs)
            IN IF Len(uids) > 0
               THEN [tree |-> child,
                     fetches |-> {[path |-> path, reference_to |-> child.reference_to,
                                   locale |-> ctx.locale, uids |-> uids,
                                   parentUid |-> pu]}]
               ELSE [tree |-> child, fetches |-> {}]
  ELSE Walk(child, path, pu, ctx)

\* Substitute without the reference bucket: the documents as the store
\* returned them
SubstituteStoreOrder(slot, uids, docs) ==
  IF slot.scalar THEN docs[1] ELSE List(docs)

\* lines 1104-1118: what replaces the descriptor slot, given the documents
\* docs that the store returned for the uids asked
Substitute(slot, uids, docs) ==
  IF slot.scalar
  THEN docs[1]
  ELSE LET found == [i \in 1..Len(uids) |->
                       IF \E j \in 1..Len(docs) : docs[j].uid = uids[i]
                       THEN <<docs[CHOOSE j \in 1..Len(docs) :
                                 /\ docs[j].uid = uids[i]
                                 /\ \A k \in 1..(j - 1) : docs[k].uid # uids[i]]>>
                       ELSE <<>>]
           Flat[i \in 0..Len(uids)] == IF i = 0 THEN <<>> ELSE Flat[i - 1] \o found[i]
       IN List(Flat[Len(uids)])

\* an update that replaces the children of the parent by those just fetched
RecordOverwrites(refs, parentUid, docs) ==
  IF parentUid # NoUid
  THEN Put(refs, parentUid, Uniq([i \in 1..Len(docs) |-> docs[i].uid]))
  ELSE refs

\* lines 1099-1102: the ancestry map after the children were recorded
Record(refs, parentUid, docs) ==
  IF parentUid # NoUid
  THEN Put(refs, parentUid,
           Uniq((IF Has(refs, parentUid) THEN refs[parentUid] ELSE <<>>)
                \o [i \in 1..Len(docs) |-> docs[i].uid]))
  ELSE refs

\* -------------------------------------------------------------- preProcess

\* the fragments passed to find(query) and findOne(query)
FindArgs == {EmptyObj, [uid |-> "c"]}

\* preProcess that takes the first configured locale whatever q.locale is
PreQFirstLocale(qq, query) ==
  LET q1 == Put(qq, "query",
                IF Has(qq, "query") THEN Merge(qq["query"], query) ELSE EmptyObj)
      q2 == Put(q1, "locale", Locales[1])
  IN IF Has(q2, "content_type_uid") /\ q2["content_type_uid"] = SchemaKind
     THEN Del(q2, "locale")
     ELSE q2

\* preProcess that keeps q.locale for the schema kind
PreQKeepLocale(qq, query) ==
  LET q1 == Put(qq, "query",
                IF Has(qq, "query") THEN Merge(qq["query"], query) ELSE EmptyObj)
  IN IF Has(q1, "locale") THEN q1 ELSE Put(q1, "locale", Locales[1])

\* lines 908-912 and 928-935: q after preProcess(query)
PreQ(qq, query) ==
  LET q1 == Put(qq, "query",
                IF Has(qq, "query") THEN Merge(qq["query"], query) ELSE EmptyObj)
      q2 == IF Has(q1, "locale") THEN q1 ELSE Put(q1, "locale", Locales[1])
  IN IF Has(q2, "content_type_uid") /\ q2["content_type_uid"] = SchemaKind
     THEN Del(q2, "locale")
     ELSE q2

\* lines 914-926 and 943-945: internal after preProcess(query)
PreInternal(int) ==
  LET i1 == Put(int, "projections",
                IF Has(int, "projections")
                THEN Merge(config.projections, int["projections"])
                ELSE config.projections)
      i2 == IF TruthyNum(i1, "limit") THEN i1 ELSE Put(i1, "limit", ConfigLimit)
      i3 == IF TruthyNum(i2, "skip") THEN i2 ELSE Put(i2, "skip", ConfigSkip)
  IN IF Flag(i3, "includeSchema") THEN Put(i3, "limit", i3["limit"] + 1) ELSE i3

\* the value of q[k] as a filter value
QValue(qq, k) == IF Has(qq, k) THEN qq[k] ELSE Undefined

\* lines 937-956: queryFilters, from q and internal as preProcess left them
QueryFilters(qq, int) ==
  LET filters ==
        Merge(Put(Put(EmptyObj, "content_type_uid", QValue(qq, "content_type_uid")),
                  "locale", QValue(qq, "locale")),
              qq["query"])
  IN [filters |-> filters,
      or |-> IF Flag(int, "includeSchema")
             THEN <<Put(EmptyObj, "uid", QValue(qq, "content_type_uid"))>>
             ELSE <<>>]

\* ------------------------------------------------------------- postProcess

\* the value of an expression that evaluates to undefined
UndefinedValue == [t |-> "undefined"]

\* the key of the envelope without the switch on the content kind
ResultKeyOfEntries(qq, int) == IF Flag(int, "single") THEN "entry" ELSE "entries"

\* lines 983-1018: the key of the envelope that holds the result
ResultKey(qq, int) ==
  LET kind == QValue(qq, "content_type_uid")
      single == Flag(int, "single")
  IN IF kind = AssetKind THEN (IF single THEN "asset" ELSE "assets")
     ELSE IF kind = SchemaKind THEN (IF single THEN "content_type" ELSE "content_types")
     ELSE (IF single THEN "entry" ELSE "entries")

\* postProcess that reports q.content_type_uid as it is
postProcessVerbatimKind(items, ct, qq, int) ==
  LET val == IF Flag(int, "single")
             THEN (IF Len(items) = 0 THEN UndefinedValue ELSE items[1])
             ELSE List(items)
      e1 == Put(EmptyObj, ResultKey(qq, int), val)
      e2 == IF Flag(int, "includeCount") THEN Put(e1, "count", Len(items)) ELSE e1
      e3 == IF Flag(int, "includeSchema") THEN Put(e2, "content_type", ct) ELSE e2
      e4 == IF ~Has(qq, "content_type_uid") THEN e3
            ELSE Put(e3, "content_type_uid", qq["content_type_uid"])
  IN IF Has(qq, "locale") THEN Put(e4, "locale", qq["locale"]) ELSE e4

\* postProcess(result, contentType): the envelope
postProcess(items, ct, qq, int) ==
  LET count == Len(items)
      val == IF Flag(int, "single")
             THEN (IF Len(items) = 0 THEN UndefinedValue ELSE items[1])
             ELSE List(items)
      e1 == Put(EmptyObj, ResultKey(qq, int), val)
      e2 == IF Flag(int, "includeCount") THEN Put(e1, "count", count) ELSE e1
      kind == IF QValue(qq, "content_type_uid") = AssetKind
              THEN AssetsName
              ELSE QValue(qq, "content_type_uid")
      e3 == IF Flag(int, "includeSchema") THEN Put(e2, "content_type", ct) ELSE e2
      e4 == IF kind = Undefined THEN e3 ELSE Put(e3, "content_type_uid", kind)
  IN IF Has(qq, "locale") THEN Put(e4, "locale", qq["locale"]) ELSE e4

\* sift: the resolved document matches {'<field>.uid': uid}
SiftMatches(doc, pred) ==
  /\ pred.field <= Len(doc.fields)
  /\ LET v == doc.fields[pred.field]
     IN \/ v.t = "doc" /\ v.uid = pred.uid
        \/ v.t = "list" /\ \E i \in 1..Len(v.items) :
                              v.items[i].t = "doc" /\ v.items[i].uid = pred.uid

RECURSIVE Sift(_, _)
Sift(items, pred) ==
  IF items = <<>> THEN <<>>
  ELSE IF SiftMatches(Head(items), pred)
       THEN <<Head(items)>> \o Sift(Tail(items), pred)
       ELSE Sift(Tail(items), pred)

\* Array.prototype.splice(start, deleteCount): the elements removed
Splice(items, start, deleteCount) ==
  SubSeq(items, Min(start, Len(items)) + 1,
         Min(Min(start, Len(items)) + deleteCount, Len(items)))

\* lines 875-881: queryOnReferences filters and pages the resolved result
RefsPage(items, int) ==
  LET sifted == Sift(items, int["queryReferences"])
  IN IF TruthyNum(int, "skip") THEN Splice(sifted, int["skip"], int["limit"])
     ELSE IF TruthyNum(int, "limit") THEN Splice(sifted, 0, int["limit"])
     ELSE sifted

\* what the promise of find() is fulfilled with once the tree is resolved
Shaped(tree, ct, qq, int) ==
  IF Has(int, "queryReferences")
  THEN postProcess(RefsPage(tree.items, int), UndefinedValue, qq, int)
  ELSE postProcess(tree.items, ct, qq, int)

\* ------------------------------------------------------------------ find

\* cleanup() that leaves the collection selected
CleanupKeepsCollection ==
  /\ collection' = collection
  /\ internal' = EmptyObj
  /\ q' = EmptyObj

\* cleanup()
Cleanup ==
  /\ collection' = "null"
  /\ internal' = EmptyObj
  /\ q' = EmptyObj

\* resolve(postProcess(...)): the promise is fulfilled; postProcess ends
\* with cleanup()
Fulfil(tree, ct) ==
  /\ envelope' = [kind |-> "value", value |-> Shaped(tree, ct, q, internal)]
  /\ outcome' = "fulfilled"
  /\ phase' = "settled"
  /\ Cleanup

\* the catch handlers without cleanup()
RejectNoCleanup ==
  /\ envelope' = [kind |-> "error", error |-> "store"]
  /\ outcome' = "rejected"
  /\ phase' = "settled"
  /\ UNCHANGED <<q, internal, collection>>

\* the catch handlers of find() and queryOnReferences(): cleanup(), reject
Reject ==
  /\ envelope' = [kind |-> "error", error |-> "store"]
  /\ outcome' = "rejected"
  /\ phase' = "settled"
  /\ Cleanup

\* find(query) on a Stack whose internal is int: preProcess, then the
\* primary fetch is issued (without limit and skip by queryOnReferences).
\* this.collection.find throws a TypeError when the Stack has no collection.
FindOn(int, query) ==
  /\ LET nq == PreQ(q, query)
         ni == PreInternal(int)
     IN /\ q' = nq
        /\ internal' = ni
        /\ config' = [config EXCEPT !.projections = ni["projections"]]
        /\ IF collection = "null"
           THEN /\ phase' = "settled"
                /\ outcome' = "rejected"
                /\ envelope' = [kind |-> "error", error |-> "TypeError"]
                /\ primary' = primary
           ELSE /\ phase' = "running"
                /\ outcome' = "pending"
                /\ envelope' = NoEnvelope
                /\ primary' =
                     [state |-> "inflight",
                      q |-> nq,
                      internal |-> ni,
                      arg |-> query,
                      before |-> [q |-> q, internal |-> int],
                      query |-> QueryFilters(nq, ni),
                      limit |-> IF Has(ni, "queryReferences") THEN 0 ELSE ni["limit"],
                      skip |-> IF Has(ni, "queryReferences") THEN 0 ELSE ni["skip"]]
  /\ UNCHANGED <<store, root, collection, calls, raw, result, contentType,
                 references, fetches, deep, failed, cc, attempt>>

\* the terminal call of a chain that is being built
FindWith(int, query) == phase = "building" /\ FindOn(int, query)

Find(query) == FindWith(internal, query)

\* findOne(query): internal.single = true, then find(query)
FindOne(query) == FindWith(Put(internal, "single", TRUE), query)

\* lodash remove(result, {uid}): the documents left and those removed
Remaining(docs, uid) == SelectSeq(docs, LAMBDA d : d.uid # uid)

Removed(docs, uid) == SelectSeq(docs, LAMBDA d : d.uid = uid)

\* what includeReferencesI reads when it runs now for a fetch in locale
Ctx(locale, refs) ==
  [locale |-> locale, refs |-> refs, inc |-> Flag(internal, "includeReferences")]

\* find() that resolves references whatever internal.excludeReferences is
SkipsResolutionNever(int) == FALSE

\* lines 799 and 819: find() hands the fetched documents to postProcess
\* without a call of includeReferencesI
SkipsResolution(int) == ~Has(int, "queryReferences") /\ Flag(int, "excludeReferences")

\* lines 806-817 and 866-872: what the store returns for the primary fetch
\* (matched of them before limit and skip), the documents that find() keeps
\* of it and the schema document that it removes
Fetched ==
  LET matched == SelectDocs(store, primary.query)
      docs == SkipLimit(matched, primary.skip, primary.limit)
      schema == ~Has(internal, "queryReferences") /\ Flag(internal, "includeSchema")
      gone == IF schema THEN Removed(docs, QValue(q, "content_type_uid")) ELSE <<>>
  IN [matched |-> Len(matched),
      docs |-> docs,
      kept |-> IF schema THEN Remaining(docs, QValue(q, "content_type_uid")) ELSE docs,
      ct |-> IF schema THEN (IF Len(gone) > 0 THEN gone[1] ELSE Null)
             ELSE UndefinedValue]

\* a then-handler of the primary fetch that hands the documents to
\* postProcess without awaiting the promise of includeReferencesI
PrimaryDoneUnawaited(w) ==
  /\ primary.state = "inflight"
  /\ raw' = [matched |-> Fetched.matched, docs |-> Fetched.docs]
  /\ contentType' = Fetched.ct
  /\ primary' = [primary EXCEPT !.state = "done"]
  /\ references' = EmptyObj
  /\ result' = (IF SkipsResolution(internal) THEN List(Fetched.kept) ELSE w.tree)
  /\ fetches' = (IF SkipsResolution(internal) THEN {} ELSE w.fetches)
  /\ Fulfil(result', Fetched.ct)
  /\ UNCHANGED <<store, config, root, calls, deep, failed, cc, attempt>>

\* The primary fetch succeeds, and the run of the resolver on the documents
\* kept leaves them as w.tree and issues w.fetches: lines 811-830 and 872-886.
PrimaryDoneTo(w) ==
  /\ primary.state = "inflight"
  /\ LET kept == Fetched.kept
         ct == Fetched.ct
     IN /\ raw' = [matched |-> Fetched.matched, docs |-> Fetched.docs]
        /\ contentType' = ct
        /\ primary' = [primary EXCEPT !.state = "done"]
        /\ references' = EmptyObj
        /\ IF SkipsResolution(internal)
           THEN /\ result' = List(kept)
                /\ fetches' = {}
                /\ Fulfil(List(kept), ct)
           ELSE /\ result' = w.tree
                /\ fetches' = w.fetches
                /\ IF w.fetches = {}
                   THEN Fulfil(w.tree, ct)
                   ELSE UNCHANGED <<q, internal, collection, phase, outcome, envelope>>
  /\ UNCHANGED <<store, config, root, calls, deep, failed, cc, attempt>>

\* The primary fetch succeeds: the resolver is includeReferencesI.
PrimaryDone ==
  PrimaryDoneTo(Walk(List(Fetched.kept), <<>>, NoUid, Ctx(QValue(q, "locale"), EmptyObj)))

\* The primary fetch fails: lines 838-842 and 893-897.
PrimaryFail ==
  /\ primary.state = "inflight"
  /\ primary' = [primary EXCEPT !.state = "failed"]
  /\ failed' = TRUE
  /\ Reject
  /\ UNCHANGED <<store, config, root, calls, raw, result, contentType, references, fetches,
                 deep, cc, attempt>>

\* the documents of the store at the indices order
Answer(order) == [i \in 1..Len(order) |-> store[order[i]]]

\* lines 1095-1102: the ancestry map once the fetch f has returned docs
Recorded(f, docs) ==
  IF Len(docs) = 0 THEN references ELSE Record(references, f.parentUid, docs)

\* A reference fetch succeeds with the documents docs, and the run of the
\* resolver on what replaces the descriptor leaves it as run.tree and issues
\* run.fetches: lines 1094-1123, and the continuations up to find().
RefDoneTo(f, docs, run) ==
  /\ f \in fetches
  /\ LET refs2 == Recorded(f, docs)
         w == IF Len(docs) = 0 THEN [tree |-> List(<<>>), fetches |-> {}] ELSE run
         tree == SetAt(result, f.path, w.tree)
         left == (fetches \ {f}) \cup w.fetches
     IN IF \E g \in w.fetches : Len(g.path) > MaxDepth
        THEN \* beyond MaxDepth the tree is not materialised: f stands for
             \* the fetch that its completion issues one level deeper
             /\ deep' = 1 - deep
             /\ UNCHANGED <<q, internal, collection, phase, result, references,
                            fetches, outcome, envelope>>
        ELSE /\ result' = tree
             /\ references' = refs2
             /\ fetches' = left
             /\ deep' = deep
             /\ IF left = {} /\ outcome = "pending"
                THEN Fulfil(tree, contentType)
                ELSE UNCHANGED <<q, internal, collection, phase, outcome, envelope>>
  /\ UNCHANGED <<store, config, root, calls, primary, raw, contentType, failed, cc, attempt>>

\* A reference fetch succeeds with the documents it matches, in the order
\* the store chose: the resolver is includeReferencesI.
RefDone(f, order) ==
  RefDoneTo(f, Answer(order),
            Walk(Substitute(GetAt(result, f.path), f.uids, Answer(order)),
                 f.path, f.parentUid, Ctx(f.locale, Recorded(f, Answer(order)))))

\* A reference fetch fails and the failure is swallowed: the fetch counts as
\* completed
RefFailSwallowed(f) ==
  /\ f \in fetches
  /\ fetches' = fetches \ {f}
  /\ failed' = TRUE
  /\ IF fetches = {f} /\ outcome = "pending"
     THEN Fulfil(result, contentType)
     ELSE UNCHANGED <<q, internal, collection, phase, outcome, envelope>>
  /\ UNCHANGED <<store, config, root, calls, primary, raw, result, contentType, references,
                 deep, cc, attempt>>

\* A reference fetch fails: rj, and the first rejection rejects find().
RefFail(f) ==
  /\ f \in fetches
  /\ fetches' = fetches \ {f}
  /\ failed' = TRUE
  /\ IF outcome = "pending"
     THEN Reject
     ELSE UNCHANGED <<q, internal, collection, phase, outcome, envelope>>
  /\ UNCHANGED <<store, config, root, calls, primary, raw, result, contentType, references,
                 deep, cc, attempt>>

\* the store answers a fetch that is in flight
StoreAnswers ==
  \/ PrimaryFail
  \/ \E f \in fetches : RefFail(f)
  \/ PrimaryDone
  \/ \E f \in fetches : \E order \in Orderings(RefMatches(f)) : RefDone(f, order)

Next ==
  \/ \E uid \in {"blog"} : ContentType(uid)
  \/ Assets
  \/ \E uid \in AssetUids : AssetCall(uid)
  \/ Schemas
  \/ \E uid \in SchemaUids : SchemaCall(uid)
  \/ \E uid \in EntryUids : Entry(uid)
  \/ \E code \in LocaleCodes : Language(code)
  \/ \E no \in LimitArgs : Limit(no)
  \/ \E no \in SkipArgs : Skip(no)
  \/ IncludeCount
  \/ IncludeSchema
  \/ IncludeReferences
  \/ ExcludeReferences
  \/ \E query \in QueryRefs : QueryReferences(query)
  \/ \E queryObject \in QueryObjects : Query(queryObject)
  \/ \E query \in FindArgs : Find(query)
  \/ \E query \in FindArgs : FindOne(query)
  \/ PrimaryDone
  \/ PrimaryFail
  \/ \E f \in fetches : \E order \in Orderings(RefMatches(f)) : RefDone(f, order)
  \/ \E f \in fetches : RefFail(f)

Spec == Init /\ [][Next]_vars

\* every fetch in flight is answered by the store, sooner or later
SpecFair == Spec /\ WF_vars(StoreAnswers)

\* ------------------------------------------- setters and their arguments

\* JavaScript values passed to a setter, by typeof / instanceof Array: the
\* string s, the number n, the array items (of strings) or the object o
UndefinedArg ==
  [ty |-> "undefined", s |-> "", n |-> 0, items |-> <<>>, o |-> [field |-> 0, uid |-> ""]]

StringArg(v) == [UndefinedArg EXCEPT !.ty = "string", !.s = v]

NumberArg(v) == [UndefinedArg EXCEPT !.ty = "number", !.n = v]

ArrayArg(v) == [UndefinedArg EXCEPT !.ty = "array", !.items = v]

ObjectArg(v) == [UndefinedArg EXCEPT !.ty = "object", !.o = v]

\* the arguments under test
KeyArgs == {StringArg("title"), StringArg("age"), NumberArg(1)}

ValueArgs == {NumberArg(1), UndefinedArg}

ListArgs == {ArrayArg(<<"a">>), ArrayArg(<<>>), StringArg("a")}

NumberArgs == {NumberArg(2), NumberArg(-1), StringArg("2")}

CodeArgs == {StringArg("fr-fr"), StringArg("de-de"), UndefinedArg}

PredicateArgs == {ObjectArg([field |-> 1, uid |-> "b"]), StringArg("b"), UndefinedArg}

PatternArgs == {StringArg("^a"), UndefinedArg}

\* the comparison setters and the operator each one writes
Comparisons ==
  {<<"lessThan", "$lt">>, <<"lessThanOrEqualTo", "$lte">>,
   <<"greaterThan", "$gt">>, <<"greaterThanOrEqualTo", "$gte">>,
   <<"notEqualTo", "$ne">>}

Memberships == {<<"containedIn", "$in">>, <<"notContainedIn", "$nin">>}

Existences == {<<"exists", TRUE>>, <<"notExists", FALSE>>}

Pagings == {"limit", "skip"}

Projections == {<<"only", 1>>, <<"except", 0>>}

BoolArg(v) == [UndefinedArg EXCEPT !.ty = "boolean", !.n = IF v THEN 1 ELSE 0]

\* The values held under the keys of q.query: an object {operator: value},
\* an array, or a literal.
ObjNode(ops) == [node |-> "object", ops |-> ops]

ArrNode(items) == [node |-> "array", items |-> items]

LitNode(value) == [node |-> "literal", value |-> value]

\* {[operator]: value}
OpNode(operator, value) == ObjNode(Put(EmptyObj, operator, value))

\* lodash merge of the value y into the value x held under one key: objects
\* are merged key by key, arrays index by index, anything else is replaced
MergeNode(x, y) ==
  IF x.node = "object" /\ y.node = "object" THEN ObjNode(Merge(x.ops, y.ops))
  ELSE IF x.node = "array" /\ y.node = "array"
  THEN ArrNode([i \in 1..(IF Len(x.items) > Len(y.items) THEN Len(x.items) ELSE Len(y.items))
                  |-> IF i <= Len(y.items) THEN y.items[i] ELSE x.items[i]])
  ELSE y

\* lodash merge(a, b) of two filter trees
DeepMerge(a, b) ==
  [k \in (DOMAIN a) \cup (DOMAIN b) |->
     IF k \in DOMAIN a /\ k \in DOMAIN b THEN MergeNode(a[k], b[k])
     ELSE IF k \in DOMAIN b THEN b[k] ELSE a[k]]

\* this.q.query[key] = value, or this.q.query = {[key]: value}
SetQuery(qq, key, value) ==
  Put(qq, "query", Put(IF Has(qq, "query") THEN qq["query"] ELSE EmptyObj, key, value))

\* this.q.query = merge(this.q.query, {[key]: value}), or = {[key]: value}
MergeQuery(qq, key, value) ==
  Put(qq, "query",
      IF Has(qq, "query") THEN DeepMerge(qq["query"], Put(EmptyObj, key, value))
      ELSE Put(EmptyObj, key, value))

\* A setter is called with the arguments a and b: when its test of the
\* arguments passes (ok) it leaves q and internal as nq and ni and returns,
\* otherwise it throws before it has written anything.
Setter(op, a, b, ok, nq, ni) ==
  /\ phase = "building"
  /\ calls < MaxSetterCalls
  /\ calls' = calls + 1
  /\ attempt' = [op |-> op, a |-> a, b |-> b, threw |-> ~ok, no |-> calls + 1]
  /\ IF ok THEN q' = nq /\ internal' = ni ELSE UNCHANGED <<q, internal>>
  /\ UNCHANGED <<store, config, root, collection, phase, cc>>
  /\ UNCHANGED runVars

\* lessThan, lessThanOrEqualTo, greaterThan, greaterThanOrEqualTo, notEqualTo
Comparison(op, key, value) ==
  LET ok == key.ty = "string" /\ value.ty # "undefined"
  IN Setter(op[1], key, value, ok,
            IF ok THEN SetQuery(q, key.s, OpNode(op[2], value)) ELSE q,
            internal)

\* containedIn, notContainedIn
Membership(op, key, value) ==
  LET ok == key.ty = "string" /\ value.ty = "array"
  IN Setter(op[1], key, value, ok,
            IF ok THEN SetQuery(q, key.s, OpNode(op[2], value)) ELSE q,
            internal)

\* exists, notExists
Existence(op, key) ==
  LET ok == key.ty = "string"
  IN Setter(op[1], key, UndefinedArg, ok,
            IF ok THEN SetQuery(q, key.s, OpNode("$exists", BoolArg(op[2]))) ELSE q,
            internal)

\* limit, skip
Paging(op, no) ==
  LET ok == /\ no.ty = "number"
            /\ no.n >= 0
            /\ Has(q, "content_type_uid")
  IN Setter(op, no, UndefinedArg, ok, q, IF ok THEN Put(internal, op, no.n) ELSE internal)

\* only, except
Projection(op, fields) ==
  LET ok == fields.ty = "array" /\ Len(fields.items) > 0
      old == IF Has(internal, "projections") THEN internal["projections"] ELSE EmptyObj
  IN Setter(op[1], fields, UndefinedArg, ok, q,
            IF ok
            THEN Put(internal, "projections",
                     Merge(old, [k \in Range(fields.items) |-> op[2]]))
            ELSE internal)

\* {$options: 'g', $regex: pattern}
RegexNode(pattern) ==
  ObjNode(Put(Put(EmptyObj, "$options", StringArg("g")), "$regex", pattern))

\* regex(field, pattern): options defaults to 'g'
Regex(field, pattern) ==
  LET ok == /\ field.ty = "string" /\ field.s # ""
            /\ pattern.ty = "string" /\ pattern.s # ""
  IN Setter("regex", field, pattern, ok,
            IF ok
            THEN MergeQuery(q, field.s, RegexNode(pattern))
            ELSE q,
            internal)

\* tags(values)
Tags(values) ==
  LET ok == values.ty = "array" /\ Len(values.items) > 0
  IN Setter("tags", values, UndefinedArg, ok,
            IF ok THEN SetQuery(q, "tags", OpNode("$in", values)) ELSE q,
            internal)

\* the sort setters and the direction each one writes
Sorts == {<<"ascending", 1>>, <<"descending", -1>>}

\* the uids passed to entry(): a string or nothing
UidArgs == {StringArg("b"), UndefinedArg}

\* ascending, descending without the test of q.content_type_uid
SortUnchecked(op, field) ==
  LET ok == field.ty = "string" /\ field.s # ""
      old == IF Has(internal, "sort") THEN internal["sort"] ELSE EmptyObj
  IN Setter(op[1], field, UndefinedArg, ok, q,
            IF ok THEN Put(internal, "sort", Put(old, field.s, op[2])) ELSE internal)

\* ascending(field), descending(field)
Sort(op, field) ==
  LET ok == /\ field.ty = "string" /\ field.s # ""
            /\ Has(q, "content_type_uid")
      old == IF Has(internal, "sort") THEN internal["sort"] ELSE EmptyObj
  IN Setter(op[1], field, UndefinedArg, ok, q,
            IF ok THEN Put(internal, "sort", Put(old, field.s, op[2])) ELSE internal)

\* entry(uid?) with the argument under test
EntryOf(uid) ==
  LET ok == Has(q, "content_type_uid")
  IN Setter("entry", uid, UndefinedArg, ok,
            IF ok /\ uid.ty = "string" /\ uid.s # "" THEN Put(q, "uid", uid.s) ELSE q,
            IF ok THEN Put(Put(internal, "limit", 1), "single", TRUE) ELSE internal)

\* entries()
Entries ==
  Setter("entries", UndefinedArg, UndefinedArg, Has(q, "content_type_uid"), q, internal)

\* the logical setters and the operator each one writes
Logicals == {<<"and", "$and">>, <<"or", "$or">>}

\* the rest arguments of and(), or() and where(): their names, or none
RestArgs == {ArrayArg(<<"q1", "q2">>), ArrayArg(<<>>)}

\* the raw filters passed to query(): an object or nothing
RawArgs == {ObjectArg([field |-> 1, uid |-> "b"]), UndefinedArg}

\* and(...queries), or(...queries): no test of the arguments
Logical(op, queries) ==
  Setter(op[1], queries, UndefinedArg, TRUE,
         MergeQuery(q, op[2], ArrNode(queries.items)), internal)

\* where(...expr): the rest array is truthy, so the test of expr never
\* fails; without q.query the assignment to q.query.$where throws a TypeError
Where(expr) ==
  Setter("where", expr, UndefinedArg, Has(q, "query"),
         MergeQuery(q, "$where", ArrNode(expr.items)), internal)

\* query(queryObject = {}) with the argument under test
QueryOf(queryObject) ==
  LET raw0 == IF queryObject.ty = "undefined" THEN EmptyObj
              ELSE [k \in {"field", "uid"} |->
                      LitNode(IF k = "uid" THEN StringArg(queryObject.o.uid)
                              ELSE NumberArg(queryObject.o.field))]
  IN Setter("query", queryObject, UndefinedArg, TRUE,
            Put(q, "query", IF Has(q, "query") THEN DeepMerge(q["query"], raw0) ELSE raw0),
            internal)

\* language(code)
LanguageOf(code) ==
  LET ok == code.ty = "string" /\ code.s # "" /\ code.s \in LocaleCodes
  IN Setter("language", code, UndefinedArg, ok,
            IF ok THEN Put(q, "locale", code.s) ELSE q, internal)

\* queryReferences(query)
QueryReferencesOf(query) ==
  LET ok == query.ty \in {"object", "array"}
  IN Setter("queryReferences", query, UndefinedArg, ok, q,
            IF ok THEN Put(internal, "queryReferences", query.o) ELSE internal)

\* a Stack whose setters are called with the arguments under test
InitSetters ==
  /\ store = StoreSelf
  /\ q = EmptyObj
  /\ internal = EmptyObj
  /\ collection = "null"
  /\ calls = 0
  /\ phase = "building"
  /\ primary = NoPrimary
  /\ raw = [matched |-> 0, docs |-> <<>>]
  /\ result = Null
  /\ contentType = Null
  /\ references = EmptyObj
  /\ fetches = {}
  /\ deep = 0
  /\ outcome = "pending"
  /\ envelope = NoEnvelope
  /\ failed = FALSE
  /\ cc = CcIdle
  /\ attempt = NoAttempt
  /\ config = ConfigOf
  /\ root = NoRoot

NextSetters ==
  \/ \E uid \in {"blog"} : ContentType(uid)
  \/ \E op \in Comparisons : \E key \in KeyArgs : \E value \in ValueArgs :
       Comparison(op, key, value)
  \/ \E op \in Memberships : \E key \in KeyArgs : \E value \in ListArgs :
       Membership(op, key, value)
  \/ \E op \in Existences : \E key \in KeyArgs : Existence(op, key)
  \/ \E op \in Pagings : \E no \in NumberArgs : Paging(op, no)
  \/ \E op \in Projections : \E fields \in ListArgs : Projection(op, fields)
  \/ \E field \in KeyArgs : \E pattern \in PatternArgs : Regex(field, pattern)
  \/ \E values \in ListArgs : Tags(values)
  \/ \E code \in CodeArgs : LanguageOf(code)
  \/ \E query \in PredicateArgs : QueryReferencesOf(query)
  \/ \E op \in Sorts : \E field \in KeyArgs : Sort(op, field)
  \/ \E uid \in UidArgs : EntryOf(uid)
  \/ Entries
  \/ \E op \in Logicals : \E queries \in RestArgs : Logical(op, queries)
  \/ \E expr \in RestArgs : Where(expr)
  \/ \E queryObject \in RawArgs : QueryOf(queryObject)

SpecSetters == InitSetters /\ [][NextSetters]_vars

\* ------------------------------------------------- paging after the sift

\* a Stack on the collection StorePaging
InitPaging ==
  /\ store = StorePaging
  /\ q = EmptyObj
  /\ internal = EmptyObj
  /\ collection = "null"
  /\ calls = 0
  /\ phase = "building"
  /\ primary = NoPrimary
  /\ raw = [matched |-> 0, docs |-> <<>>]
  /\ result = Null
  /\ contentType = Null
  /\ references = EmptyObj
  /\ fetches = {}
  /\ deep = 0
  /\ outcome = "pending"
  /\ envelope = NoEnvelope
  /\ failed = FALSE
  /\ cc = CcIdle
  /\ attempt = NoAttempt
  /\ config = ConfigOf
  /\ root = NoRoot

\* the chains that page a query: content type, predicate, limit, skip, flags
NextPaging ==
  \/ \E uid \in {"blog"} : ContentType(uid)
  \/ \E no \in LimitArgs : Limit(no)
  \/ \E no \in SkipArgs : Skip(no)
  \/ IncludeSchema
  \/ IncludeReferences
  \/ \E query \in QueryRefs : QueryReferences(query)
  \/ \E query \in {EmptyObj} : Find(query)
  \/ PrimaryDone
  \/ PrimaryFail
  \/ \E f \in fetches : \E order \in Orderings(RefMatches(f)) : RefDone(f, order)
  \/ \E f \in fetches : RefFail(f)

SpecPaging == InitPaging /\ [][NextPaging]_vars

\* ------------------------------------------------------- projections

\* the field lists passed to only() and except()
FieldLists == {<<"title">>, <<"age">>, <<"title", "uid">>}

\* internal.projections with every field of fields set to mark
Marked(int, fields, mark) ==
  Put(int, "projections",
      Merge(IF Has(int, "projections") THEN int["projections"] ELSE EmptyObj,
            [k \in Range(fields) |-> mark]))

\* only(fields): throws unless fields is a non-empty array
Only(fields) ==
  /\ Building
  /\ Len(fields) > 0
  /\ Called(q, Marked(internal, fields, 1), collection)

\* except(fields): throws unless fields is a non-empty array
Except(fields) ==
  /\ Building
  /\ Len(fields) > 0
  /\ Called(q, Marked(internal, fields, 0), collection)

\* the chains that set projections on a content type and run find()
NextProjections ==
  \/ \E uid \in {"blog"} : ContentType(uid)
  \/ \E fields \in FieldLists : Only(fields)
  \/ \E fields \in FieldLists : Except(fields)
  \/ \E query \in {EmptyObj} : Find(query)
  \/ PrimaryDone
  \/ PrimaryFail

SpecProjections == InitSetters /\ [][NextProjections]_vars

\* ------------------------------------------- path-restricted inclusion

\* typings/stack.d.ts declares Stack.includeSpecificReferences(entry, locale,
\* references, parentUid) and Stack.isPartOfInclude; their code is not part
\* of src/src/stack.ts. They are modelled after section 4.4 of spec.md: the
\* resolver with a path filter. A dotted path is the sequence of the field
\* indices from the root document down to the field (the indices of arrays
\* are not part of it).

\* the lists of paths passed to include()
IncludeArgs == {<< <<1>> >>, << <<1>>, <<1, 1>> >>, << <<2>> >>, << <<1, 1>> >>}

\* include(fields) of entries.ts: throws when fields is empty
Include(fields) ==
  /\ Building
  /\ Len(fields) > 0
  /\ Called(q, Put(internal, "includeSpecificReferences", fields), collection)

\* the decision without the path filter: as in includeReferencesI
isPartOfIncludeNoPaths(ref, dotted, ctx) == Expandable(ref, ctx.inc)

\* the descriptor at the dotted path is expanded: it refers to the asset
\* kind, or all references are included, or its path is an include path
isPartOfInclude(ref, dotted, ctx) ==
  \/ Expandable(ref, ctx.inc)
  \/ Contains(ctx.paths, dotted)

RECURSIVE includeSpecificReferences(_, _, _, _, _)
RECURSIVE includeSpecificProp(_, _, _, _, _)

\* One synchronous run of the path-restricted resolver on the value v held
\* at path, whose dotted path is dotted.
includeSpecificReferences(v, path, dotted, parentUid, ctx) ==
  IF v.t \in {"doc", "list"}
  THEN LET pu == IF v.t = "doc" /\ v.uid # NoUid THEN v.uid ELSE parentUid
           kids == Kids(v)
           res == [i \in 1..Len(kids) |->
                     includeSpecificProp(kids[i], path \o <<i>>,
                                         IF v.t = "doc" THEN Append(dotted, i) ELSE dotted,
                                         pu, ctx)]
       IN [tree |-> WithKids(v, [i \in 1..Len(kids) |-> res[i].tree]),
           fetches |-> UNION {res[i].fetches : i \in 1..Len(kids)}]
  ELSE [tree |-> v, fetches |-> {}]

\* one field: a descriptor that is not expanded is left as it is and is not
\* descended into; one whose uids are all judged cyclic becomes an empty
\* sequence
includeSpecificProp(child, path, dotted, pu, ctx) ==
  IF child.t = "ref"
  THEN IF ~isPartOfInclude(child, dotted, ctx) THEN [tree |-> child, fetches |-> {}]
       ELSE LET uids == UidsToFetch(child, ctx.refs)
            IN IF Len(uids) = 0
               THEN [tree |-> List(<<>>), fetches |-> {}]
               ELSE [tree |-> child,
                     fetches |-> {[path |-> path, dotted |-> dotted,
                                   reference_to |-> child.reference_to,
                                   locale |-> ctx.locale, uids |-> uids,
                                   parentUid |-> pu]}]
  ELSE includeSpecificReferences(child, path, dotted, pu, ctx)

\* what the path-restricted resolver reads when it runs now
CtxSpecific(locale, refs) ==
  [locale |-> locale, refs |-> refs, inc |-> Flag(internal, "includeReferences"),
   paths |-> IF Has(internal, "includeSpecificReferences")
             THEN internal["includeSpecificReferences"] ELSE <<>>]

\* The primary fetch succeeds: the resolver is includeSpecificReferences.
PrimaryDoneSpecific ==
  PrimaryDoneTo(includeSpecificReferences(List(Fetched.kept), <<>>, <<>>, NoUid,
                                          CtxSpecific(QValue(q, "locale"), EmptyObj)))

\* A reference fetch of the path-restricted resolver succeeds.
RefDoneSpecific(f, order) ==
  RefDoneTo(f, Answer(order),
            includeSpecificReferences(
              Substitute(GetAt(result, f.path), f.uids, Answer(order)),
              f.path, f.dotted, f.parentUid,
              CtxSpecific(f.locale, Recorded(f, Answer(order)))))

InitInclude ==
  /\ store \in {StoreShared, StoreAssets, StoreSelf}
  /\ q = EmptyObj
  /\ internal = EmptyObj
  /\ collection = "null"
  /\ calls = 0
  /\ phase = "building"
  /\ primary = NoPrimary
  /\ raw = [matched |-> 0, docs |-> <<>>]
  /\ result = Null
  /\ contentType = Null
  /\ references = EmptyObj
  /\ fetches = {}
  /\ deep = 0
  /\ outcome = "pending"
  /\ envelope = NoEnvelope
  /\ failed = FALSE
  /\ cc = CcIdle
  /\ attempt = NoAttempt
  /\ config = ConfigOf
  /\ root = NoRoot

\* the chains that restrict the inclusion of references to paths
NextInclude ==
  \/ \E uid \in {"blog"} : ContentType(uid)
  \/ \E fields \in IncludeArgs : Include(fields)
  \/ IncludeReferences
  \/ \E query \in {EmptyObj} : Find(query)
  \/ PrimaryDoneSpecific
  \/ PrimaryFail
  \/ \E f \in fetches : \E order \in Orderings(RefMatches(f)) : RefDoneSpecific(f, order)
  \/ \E f \in fetches : RefFail(f)

SpecInclude == InitInclude /\ [][NextInclude]_vars

\* ------------------------------------------- asset() and schema()

\* asset(uid?) or schema(uid?) is called with the argument under test and
\* returns the Stack obj with q and internal as nq and ni
Selected(op, uid, obj, nq, ni) ==
  /\ Building
  /\ attempt' = [op |-> op, a |-> uid, b |-> UndefinedArg, threw |-> FALSE,
                 no |-> calls + 1]
  /\ q' = nq
  /\ internal' = ni
  /\ collection' = CollectionName
  /\ calls' = calls + 1
  /\ root' = RootAfter(obj)
  /\ UNCHANGED <<store, config, phase, cc>>
  /\ UNCHANGED runVars

\* uid && typeof uid === 'string'
GivenUid(uid) == uid.ty = "string" /\ uid.s # ""

\* asset(uid?): a new Stack
AssetOf(uid) ==
  Selected("asset", uid, "new",
           IF GivenUid(uid)
           THEN Put(Put(EmptyObj, "content_type_uid", AssetKind), "uid", uid.s)
           ELSE EmptyObj,
           Put(Put(EmptyObj, "limit", 1), "single", TRUE))

\* schema(uid?): on this Stack
SchemaOf(uid) ==
  Selected("schema", uid, "this",
           IF GivenUid(uid)
           THEN Put(Put(q, "content_type_uid", SchemaKind), "uid", uid.s)
           ELSE q,
           Put(Put(internal, "limit", 1), "single", TRUE))

InitSingles ==
  /\ store = StoreSingles
  /\ q = EmptyObj
  /\ internal = EmptyObj
  /\ collection = "null"
  /\ calls = 0
  /\ phase = "building"
  /\ primary = NoPrimary
  /\ raw = [matched |-> 0, docs |-> <<>>]
  /\ result = Null
  /\ contentType = Null
  /\ references = EmptyObj
  /\ fetches = {}
  /\ deep = 0
  /\ outcome = "pending"
  /\ envelope = NoEnvelope
  /\ failed = FALSE
  /\ cc = CcIdle
  /\ attempt = NoAttempt
  /\ config = ConfigOf
  /\ root = NoRoot

\* the chains that select a single asset or a single schema and run find()
NextSingles ==
  \/ \E uid \in {StringArg("x"), UndefinedArg} : AssetOf(uid)
  \/ \E uid \in {StringArg("blog"), UndefinedArg} : SchemaOf(uid)
  \/ IncludeCount
  \/ ExcludeReferences
  \/ \E query \in {EmptyObj} : Find(query)
  \/ PrimaryDone
  \/ PrimaryFail
  \/ \E f \in fetches : \E order \in Orderings(RefMatches(f)) : RefDone(f, order)
  \/ \E f \in fetches : RefFail(f)

SpecSingles == InitSingles /\ [][NextSingles]_vars

\* ------------------------------------------- one chain after another

\* contentType(uid) with a uid that is a non-empty string: a new Stack
ContentTypeOf(uid) ==
  Selected("contentType", uid, "new",
           Put(EmptyObj, "content_type_uid", uid.s), EmptyObj)

\* assets(): a new Stack
AssetsOf ==
  Selected("assets", UndefinedArg, "new",
           Put(EmptyObj, "content_type_uid", AssetKind), EmptyObj)

\* schemas(): on this Stack
SchemasOf ==
  Selected("schemas", UndefinedArg, "this",
           Put(q, "content_type_uid", SchemaKind), internal)

\* find(query) or findOne(query) is called on a Stack whose query has
\* completed
FindAgain(single, query) ==
  /\ phase = "settled"
  /\ FindOn(IF single THEN Put(internal, "single", TRUE) ELSE internal, query)

\* The caller leaves the chain it has built or executed and turns to the
\* root Stack for its next chain: the calls that follow are made on the
\* root Stack, as it is by now, and find() returns a new promise.
BackToRoot ==
  /\ \/ root.kept = "aside" /\ phase # "running"
     \/ root.kept = "this" /\ phase = "settled"
  /\ q' = (IF root.kept = "aside" THEN root.q ELSE q)
  /\ internal' = (IF root.kept = "aside" THEN root.internal ELSE internal)
  /\ collection' = (IF root.kept = "aside" THEN root.collection ELSE collection)
  /\ root' = RootIsThis
  /\ phase' = "building"
  /\ primary' = NoPrimary
  /\ raw' = [matched |-> 0, docs |-> <<>>]
  /\ result' = Null
  /\ contentType' = Null
  /\ references' = EmptyObj
  /\ fetches' = {}
  /\ deep' = 0
  /\ outcome' = "pending"
  /\ envelope' = NoEnvelope
  /\ failed' = FALSE
  /\ UNCHANGED <<store, config, calls, cc, attempt>>

\* a caller that keeps the root Stack, on the collection StoreSelf
InitChains ==
  /\ store = StoreSelf
  /\ q = EmptyObj
  /\ internal = EmptyObj
  /\ collection = "null"
  /\ calls = 0
  /\ phase = "building"
  /\ primary = NoPrimary
  /\ raw = [matched |-> 0, docs |-> <<>>]
  /\ result = Null
  /\ contentType = Null
  /\ references = EmptyObj
  /\ fetches = {}
  /\ deep = 0
  /\ outcome = "pending"
  /\ envelope = NoEnvelope
  /\ failed = FALSE
  /\ cc = CcIdle
  /\ attempt = NoAttempt
  /\ config = ConfigOf
  /\ root = RootIsThis

\* chains that start at the root Stack, one after the other
NextChains ==
  \/ \E uid \in {StringArg("blog")} : ContentTypeOf(uid)
  \/ AssetsOf
  \/ SchemasOf
  \/ \E uid \in {StringArg("x"), UndefinedArg} : AssetOf(uid)
  \/ \E uid \in {StringArg("blog"), UndefinedArg} : SchemaOf(uid)
  \/ \E fields \in {<<"title">>} : Only(fields)
  \/ \E fields \in {<<"age">>} : Except(fields)
  \/ IncludeCount
  \/ \E query \in {EmptyObj} : Find(query)
  \/ \E single \in BOOLEAN : \E query \in {EmptyObj} : FindAgain(single, query)
  \/ PrimaryDone
  \/ PrimaryFail
  \/ BackToRoot

SpecChains == InitChains /\ [][NextChains]_vars

\* ------------------------------------------- raw fragments of the filter

\* raw fragments passed to query() and to find(): on the uid, on the
\* content kind and on the locale
Fragments ==
  {[uid |-> "b"], [content_type_uid |-> AssetKind], [locale |-> "fr-fr"]}

\* a Stack on the collection StoreMixed
InitFragments ==
  /\ store = StoreMixed
  /\ q = EmptyObj
  /\ internal = EmptyObj
  /\ collection = "null"
  /\ calls = 0
  /\ phase = "building"
  /\ primary = NoPrimary
  /\ raw = [matched |-> 0, docs |-> <<>>]
  /\ result = Null
  /\ contentType = Null
  /\ references = EmptyObj
  /\ fetches = {}
  /\ deep = 0
  /\ outcome = "pending"
  /\ envelope = NoEnvelope
  /\ failed = FALSE
  /\ cc = CcIdle
  /\ attempt = NoAttempt
  /\ config = ConfigOf
  /\ root = NoRoot

\* the chains that add raw fragments to the filter of a content type
NextFragments ==
  \/ \E uid \in {"blog"} : ContentType(uid)
  \/ \E code \in LocaleCodes : Language(code)
  \/ \E queryObject \in Fragments : Query(queryObject)
  \/ \E query \in Fragments \cup {EmptyObj} : Find(query)
  \/ PrimaryDone
  \/ PrimaryFail

SpecFragments == InitFragments /\ [][NextFragments]_vars

\* ------------------------------------------- checkCyclic as a function

\* the uids of the ancestry maps that checkCyclic is run on by itself
CycUids == {"a", "b", "c"}

\* the child lists: every sequence without repetition over CycUids
CycLists == UNION {Orderings(S) : S \in SUBSET CycUids}

\* every ancestry map over CycUids, maps with cycles and self-loops included
CycMaps == UNION {[K -> CycLists] : K \in SUBSET CycUids}

InitCyclic ==
  /\ store = StoreSelf
  /\ q = EmptyObj
  /\ internal = EmptyObj
  /\ collection = "null"
  /\ calls = 0
  /\ phase = "building"
  /\ primary = NoPrimary
  /\ raw = [matched |-> 0, docs |-> <<>>]
  /\ result = Null
  /\ contentType = Null
  /\ references = EmptyObj
  /\ fetches = {}
  /\ deep = 0
  /\ outcome = "pending"
  /\ envelope = NoEnvelope
  /\ failed = FALSE
  /\ cc \in {checkCyclicStart(uid, mapping) : uid \in CycUids \cup {"m"}, mapping \in CycMaps}
  /\ attempt = NoAttempt
  /\ config = ConfigOf
  /\ root = NoRoot

\* the loop of checkCyclic advances by one iteration
CycStep ==
  /\ cc.pc = "loop"
  /\ cc' = checkCyclicStep(cc)
  /\ UNCHANGED <<store, config, root, calls, phase, attempt>>
  /\ UNCHANGED builderVars
  /\ UNCHANGED runVars

NextCyclic == CycStep

SpecCyclic == InitCyclic /\ [][NextCyclic]_vars

\* ------------------------------------------------------------------ claims

\* the parent -> child edges that an ancestry map records
Edges(mapping) ==
  {e \in (DOMAIN mapping) \X AllUids : Contains(mapping[e[1]], e[2])}

RECURSIVE Descendants(_, _, _)
\* the uids reachable from the set from by one to k edges
Descendants(from, mapping, k) ==
  IF k = 0 THEN {}
  ELSE LET next == {e[2] : e \in {e \in Edges(mapping) : e[1] \in from}}
       IN next \cup Descendants(next, mapping, k - 1)

\* uid is reachable from itself by one or more recorded edges
OnCycle(uid, mapping) ==
  uid \in Descendants({uid}, mapping, Cardinality(DOMAIN mapping))

\* C3: checkCyclic(uid, map) returns true if and only if uid is reachable
\* from itself by one or more recorded parent -> child edges.
C3_CheckCyclicIffOnCycle ==
  cc.pc = "done" => (cc.flag <=> OnCycle(cc.uid, cc.mapping))

\* C3 witness: a run that ended with true after following more than one
\* edge, on a map in which another uid is not on any cycle
C3_Witness ==
  /\ cc.pc = "done"
  /\ cc.flag
  /\ cc.i >= 2
  /\ \E u \in DOMAIN cc.mapping : ~OnCycle(u, cc.mapping)


\* ------------------------------------------- the resolved tree, observed

\* find() ran preProcess and issued the primary fetch
Executed == primary.state # "none"

\* a flag of internal as preProcess left it for the query that is executed
Ran(flag) == Executed /\ Flag(primary.internal, flag)

\* the store holds a document of this kind and uid in the locale asked
InStore(kind, uid, locale) ==
  \E i \in 1..Len(store) :
    /\ store[i].content_type_uid = kind
    /\ store[i].uid = uid
    /\ FieldMatches(store[i].locale, locale)

\* the document as the store holds it
StoreDoc(kind, uid) ==
  store[CHOOSE i \in 1..Len(store) :
          store[i].content_type_uid = kind /\ store[i].uid = uid]

ListUids(items) == [i \in 1..Len(items) |-> items[i].uid]

RECURSIVE Slots(_, _, _)
RECURSIVE SlotsOf(_, _, _)

\* Every property of the resolved object now that holds, or held, a
\* reference descriptor, with the descriptor as the store holds it (was) and
\* the number of documents it is nested in (depth); orig is the object as
\* the store holds it.
Slots(now, orig, depth) ==
  UNION {SlotsOf(now.fields[i], orig.fields[i], depth) : i \in 1..Len(orig.fields)}

SlotsOf(now, was, depth) ==
  IF was.t = "ref"
  THEN {[now |-> now, was |-> was, depth |-> depth]}
       \cup (IF now.t = "doc"
             THEN Slots(now, StoreDoc(now.content_type_uid, now.uid), depth + 1)
             ELSE IF now.t = "list"
             THEN UNION {Slots(now.items[j],
                               StoreDoc(now.items[j].content_type_uid, now.items[j].uid),
                               depth + 1) : j \in 1..Len(now.items)}
             ELSE {})
  ELSE Slots(now, was, depth)

\* the slots of the result array that includeReferencesI resolves
AllSlots ==
  IF result.t = "list"
  THEN UNION {Slots(result.items[i],
                    StoreDoc(result.items[i].content_type_uid, result.items[i].uid), 1)
              : i \in 1..Len(result.items)}
  ELSE {}

\* the slot holds what replaced its descriptor
Expanded(slot) == slot.now # slot.was

\* the uids that lie on chain between two occurrences of one uid
Closed(chain) ==
  {chain[k] : k \in {k \in 1..Len(chain) :
      \E i, j \in 1..Len(chain) : i < j /\ chain[i] = chain[j] /\ i <= k /\ k <= j}}

RECURSIVE ChainsOK(_, _)
\* Below v, whose non-asset ancestors have the uids chain, no non-asset
\* document has the uid of a document on a closed cycle of its ancestors.
ChainsOK(v, chain) ==
  IF v.t = "doc" /\ v.uid # NoUid /\ v.content_type_uid # AssetKind
  THEN /\ v.uid \notin Closed(chain)
       /\ \A i \in 1..Len(v.fields) : ChainsOK(v.fields[i], Append(chain, v.uid))
  ELSE \A i \in 1..Len(Kids(v)) : ChainsOK(Kids(v)[i], chain)

RECURSIVE ClosedBackRef(_, _)
\* below v there is a second occurrence of a uid that still holds the
\* unexpanded descriptor of a document of the cycle that it closes
ClosedBackRef(v, chain) ==
  IF v.t = "doc" /\ v.uid # NoUid /\ v.content_type_uid # AssetKind
  THEN \/ /\ Contains(chain, v.uid)
          /\ \E i \in 1..Len(v.fields) :
               /\ v.fields[i].t = "ref"
               /\ \E u \in Range(v.fields[i].values) : u \in Closed(Append(chain, v.uid))
       \/ \E i \in 1..Len(v.fields) : ClosedBackRef(v.fields[i], Append(chain, v.uid))
  ELSE \E i \in 1..Len(Kids(v)) : ClosedBackRef(Kids(v)[i], chain)

\* C1: a find() with includeReferences that was started settles, whatever
\* the store holds and in whatever order the fetches complete, given that the
\* store answers every fetch.
C1_FindSettles ==
  (phase = "running" /\ Ran("includeReferences")) ~> (phase = "settled")

\* C2: with includeReferences, along every chain of nested expanded entries
\* no uid occurs more than twice, and below the second occurrence of a uid
\* no entry of the cycle that it closes is expanded again.
C2_CycleExpandedAtMostOnce == Ran("includeReferences") => ChainsOK(result, <<>>)

\* C2 witness: find() fulfilled with includeReferences, and the result holds
\* a cycle that was expanded once and whose back-reference is left as a
\* descriptor
C2_Witness ==
  /\ outcome = "fulfilled"
  /\ Ran("includeReferences")
  /\ ClosedBackRef(result, <<>>)

\* C4: an expanded reference whose values is a sequence of uids holds
\* documents of the kind referred to, in the order of values, without
\* placeholder; every asset asked for that the store holds is there.
C4_ReferenceOrder ==
  \A s \in AllSlots :
    (Expanded(s) /\ ~s.was.scalar) =>
      /\ s.now.t = "list"
      /\ \A i \in 1..Len(s.now.items) :
           /\ s.now.items[i].t = "doc"
           /\ s.now.items[i].content_type_uid = s.was.reference_to
      /\ ListUids(s.now.items) = Filter(s.was.values, Range(ListUids(s.now.items)))
      /\ s.was.reference_to = AssetKind =>
           Range(ListUids(s.now.items)) =
             {u \in Range(s.was.values) : InStore(AssetKind, u, QValue(primary.q, "locale"))}

\* C4 witness: a sequence of three uids was expanded to the two documents
\* that the store holds, which the store keeps in the opposite order
C4_Witness ==
  \E s \in AllSlots :
    /\ Expanded(s)
    /\ s.was.values = <<"c", "m", "b">>
    /\ s.now.t = "list"
    /\ ListUids(s.now.items) = <<"c", "b">>

\* the descriptor of slot s is replaced by the assets it names
AssetsIn(s, locale) ==
  IF s.was.scalar /\ Len(s.was.values) = 1
  THEN /\ s.now.t = "doc"
       /\ s.now.content_type_uid = AssetKind
       /\ s.now.uid = s.was.values[1]
  ELSE /\ s.now.t = "list"
       /\ ListUids(s.now.items) =
            Filter(s.was.values, {u \in AllUids : InStore(AssetKind, u, locale)})

\* C5: when find() fulfils without includeReferences and without
\* excludeReferences, every asset descriptor that the walk reached and whose
\* target the store holds is replaced by the asset document(s).
C5_AssetsAlwaysExpanded ==
  (outcome = "fulfilled" /\ ~Ran("includeReferences") /\ ~Ran("excludeReferences")) =>
    \A s \in AllSlots :
      (/\ s.was.reference_to = AssetKind
       /\ \E u \in Range(s.was.values) : InStore(AssetKind, u, QValue(primary.q, "locale")))
        => AssetsIn(s, QValue(primary.q, "locale"))

\* C5 witness: fulfilled with all flags off, and an asset descriptor inside
\* an expanded asset is expanded too
C5_Witness ==
  /\ outcome = "fulfilled"
  /\ ~Ran("includeReferences")
  /\ ~Ran("excludeReferences")
  /\ ~Has(primary.internal, "queryReferences")
  /\ \E s \in AllSlots :
       s.depth >= 2 /\ s.was.reference_to = AssetKind /\ Expanded(s) /\ s.now.t = "list"
                    /\ Len(s.now.items) > 0

\* C6: without includeReferences no fetch is issued for a descriptor that
\* does not refer to the asset kind, and the descriptor stays as the store
\* returned it, at every depth.
C6_NonAssetUntouched ==
  (Executed /\ ~Ran("includeReferences")) =>
    /\ \A f \in fetches : f.reference_to = AssetKind
    /\ \A s \in AllSlots : s.was.reference_to # AssetKind => s.now = s.was

\* C6 witness: fulfilled without includeReferences; a descriptor of an entry
\* is untouched inside an expanded asset
C6_Witness ==
  /\ outcome = "fulfilled"
  /\ ~Ran("includeReferences")
  /\ \E s \in AllSlots :
       s.depth >= 2 /\ s.was.reference_to # AssetKind /\ Len(s.was.values) > 0

\* ------------------------------------------------ the envelope, observed

\* cleanup() has run
BuilderReset == q = EmptyObj /\ internal = EmptyObj /\ collection = "null"

\* the number of documents that match the query before limit and skip
MatchCount ==
  IF Has(primary.internal, "queryReferences")
  THEN Len(Sift(result.items, primary.internal["queryReferences"]))
  ELSE raw.matched
       - (IF Ran("includeSchema")
          THEN Len(Removed(SelectDocs(store, primary.query),
                           QValue(primary.q, "content_type_uid")))
          ELSE 0)

\* C7: with includeCount, the count of the envelope is the number of
\* documents that match before limit and skip truncate the result, on the
\* normal path and on the queryReferences path.
C7_CountBeforeTruncation ==
  (outcome = "fulfilled" /\ Ran("includeCount")) =>
    /\ Has(envelope.value, "count")
    /\ envelope.value["count"] = MatchCount

\* C8: once a store fetch of find() has failed, the promise is rejected and
\* is never fulfilled, whatever the other fetches in flight do.
C8_FailureRejects ==
  failed => (outcome = "rejected" /\ envelope.kind = "error")

\* C8 witness: a reference fetch failed after the primary fetch and another
\* reference fetch had succeeded, and no fetch is left in flight
C8_Witness ==
  /\ failed
  /\ primary.state = "done"
  /\ fetches = {}
  /\ outcome = "rejected"
  /\ \E s \in AllSlots : Expanded(s)

\* C9: when find() is rejected because a store fetch failed, cleanup() has
\* run: q = {}, internal = {} and collection = null.
C9_RejectedAfterCleanup ==
  (outcome = "rejected" /\ failed) => BuilderReset

\* C9 witness: on the queryReferences path a reference fetch failed and
\* find() is rejected
C9_Witness ==
  /\ outcome = "rejected"
  /\ failed
  /\ primary.state = "done"
  /\ Has(primary.internal, "queryReferences")

\* C10 as stated: when find()/findOne() fulfils the builder is reset, and
\* the envelope carries the content_type_uid and the locale of the query that
\* was executed.
C10_Original ==
  outcome = "fulfilled" =>
    /\ BuilderReset
    /\ QValue(envelope.value, "content_type_uid") = QValue(primary.q, "content_type_uid")
    /\ QValue(envelope.value, "locale") = QValue(primary.q, "locale")

\* the content_type_uid that the envelope reports for the query executed
ReportedKind ==
  IF QValue(primary.q, "content_type_uid") = AssetKind
  THEN AssetsName
  ELSE QValue(primary.q, "content_type_uid")

\* C10: when find()/findOne() fulfils the builder is reset, and the envelope
\* carries the locale of the query that was executed and its
\* content_type_uid, which for the asset kind is reported as 'assets'.
C10_ResetWithMetadata ==
  outcome = "fulfilled" =>
    /\ BuilderReset
    /\ QValue(envelope.value, "content_type_uid") = ReportedKind
    /\ QValue(envelope.value, "locale") = QValue(primary.q, "locale")

\* C10 witness: a query of the asset kind fulfilled on the path of
\* excludeReferences; the envelope reports 'assets'
C10_Witness ==
  /\ outcome = "fulfilled"
  /\ Ran("excludeReferences")
  /\ QValue(primary.q, "content_type_uid") = AssetKind
  /\ QValue(envelope.value, "content_type_uid") = AssetsName
  /\ BuilderReset

\* ------------------------------------------------ the compiled filter, observed

\* the query that was executed is on an ordinary content type
OnEntries ==
  /\ Executed
  /\ Has(primary.q, "content_type_uid")
  /\ primary.q["content_type_uid"] \notin {AssetKind, SchemaKind}

\* C11: after contentType(c).entry(u) with a uid u, the compiled filter
\* constrains uid to u and the document under 'entry', if any, has uid u.
C11_EntryByUid ==
  (outcome = "fulfilled" /\ OnEntries /\ Has(primary.q, "uid")) =>
    /\ QValue(primary.query.filters, "uid") = primary.q["uid"]
    /\ Has(envelope.value, "entry")
    /\ envelope.value["entry"].t = "doc" => envelope.value["entry"].uid = primary.q["uid"]

\* C12: the fragment passed to find(query) or findOne(query) is part of the
\* compiled store filter and overrides the builder's filters on its keys.
C12_FragmentInFilter ==
  Executed =>
    \A k \in DOMAIN primary.arg :
      QValue(primary.query.filters, k) = primary.arg[k]

\* the limit that the chain resolves to: the one set, else config.limit
ResolvedLimit ==
  IF TruthyNum(primary.before.internal, "limit")
  THEN primary.before.internal["limit"]
  ELSE ConfigLimit

\* the documents of the result sequence of the envelope
Returned ==
  LET v == envelope.value[ResultKey(primary.q, primary.internal)]
  IN IF v.t = "list" THEN v.items ELSE IF v.t = "doc" THEN <<v>> ELSE <<>>

\* C13: with includeSchema the compiled filter is the OR of the primary filter
\* and {uid = content_type_uid} and the store is sent the resolved limit plus
\* one; the fetched document whose uid is the content type uid is returned
\* under content_type (null when none was fetched) and not among the result.
C13_IncludeSchema ==
  Ran("includeSchema") =>
    /\ primary.query.or = <<[uid |-> QValue(primary.q, "content_type_uid")]>>
    /\ primary.limit = ResolvedLimit + 1
    /\ outcome = "fulfilled" =>
         /\ Has(envelope.value, "content_type")
         /\ LET fetched == Removed(raw.docs, QValue(primary.q, "content_type_uid"))
            IN envelope.value["content_type"] =
                 (IF Len(fetched) > 0 THEN fetched[1] ELSE Null)
         /\ \A i \in 1..Len(Returned) :
              Returned[i].uid # QValue(primary.q, "content_type_uid")

\* the part of C13 that concerns the path without queryReferences
C13_NormalPath ==
  (Executed /\ ~Has(primary.internal, "queryReferences")) => C13_IncludeSchema

\* the query that was executed is on the schema kind
OnSchemas == Executed /\ QValue(primary.q, "content_type_uid") = SchemaKind

\* the query that was executed is on the asset kind
OnAssets == Executed /\ QValue(primary.q, "content_type_uid") = AssetKind

\* language() was called on the Stack that executes
LanguageCalled == Has(primary.before.q, "locale")

\* C14: on an ordinary content type or on assets the locale of the compiled
\* filter is the code passed to language(), or the code of the first
\* configured locale when language() was not called.
C14_FilterLocale ==
  (OnEntries \/ OnAssets) =>
    primary.query.filters["locale"] =
      (IF LanguageCalled THEN primary.before.q["locale"] ELSE Locales[1])

\* C14 witness: a query on assets was compiled after language('fr-fr')
C14_Witness ==
  /\ OnAssets
  /\ LanguageCalled
  /\ primary.query.filters["locale"] = Locales[2]
  /\ primary.state = "done"

\* C15: on the schema kind the compiled filter carries no locale value,
\* whether or not language() was called, and matches every schema document
\* (which carries no locale) that its other keys admit.
C15_SchemaFilterHasNoLocale ==
  OnSchemas =>
    /\ QValue(primary.query.filters, "locale") = Undefined
    /\ \A i \in 1..Len(store) :
         (/\ store[i].content_type_uid = SchemaKind
          /\ store[i].locale = NoUid
          /\ Has(primary.query.filters, "uid")
               => FieldMatches(store[i].uid, primary.query.filters["uid"]))
           => MatchesQuery(store[i], primary.query)

\* C15 witness: schemas() after language('fr-fr') fetched a schema document
C15_Witness ==
  /\ OnSchemas
  /\ LanguageCalled
  /\ primary.before.q["locale"] = Locales[2]
  /\ primary.state = "done"
  /\ raw.matched > 0

\* the keys under which an envelope holds its result
ResultKeys == {"asset", "assets", "content_type", "content_types", "entry", "entries"}

\* the key that the content kind and the single flag of the query call for
ExpectedKey ==
  IF OnAssets THEN (IF Ran("single") THEN "asset" ELSE "assets")
  ELSE IF OnSchemas THEN (IF Ran("single") THEN "content_type" ELSE "content_types")
  ELSE (IF Ran("single") THEN "entry" ELSE "entries")

\* the documents that find() hands to postProcess
Delivered ==
  IF Has(primary.internal, "queryReferences")
  THEN RefsPage(result.items, primary.internal)
  ELSE result.items

\* C16: the envelope holds its result under the one key that the content
\* kind and the single flag call for (besides content_type of includeSchema,
\* no other result key is present), and a plural key holds the whole result
\* sequence.
C16_OneResultKey ==
  outcome = "fulfilled" =>
    /\ Has(envelope.value, ExpectedKey)
    /\ (DOMAIN envelope.value) \cap ResultKeys
         \subseteq {ExpectedKey} \cup (IF Ran("includeSchema") THEN {"content_type"} ELSE {})
    /\ ~Ran("single") => envelope.value[ExpectedKey] = List(Delivered)

\* C16 witness: asset(uid).find() fulfilled with a document under 'asset'
C16_Witness ==
  /\ outcome = "fulfilled"
  /\ OnAssets
  /\ Ran("single")
  /\ Has(envelope.value, "asset")
  /\ envelope.value["asset"].t = "doc"

\* C17: in single-result mode, when no document is found, the singular key
\* of the envelope holds null.
C17_SingleEmptyIsNull ==
  (outcome = "fulfilled" /\ Ran("single") /\ Len(Delivered) = 0) =>
    /\ Has(envelope.value, ExpectedKey)
    /\ envelope.value[ExpectedKey] = Null

\* C18: with queryReferences, find() resolves the references of every
\* fetched document, those to entries included, before it evaluates the
\* predicate, whether or not includeReferences() was called.
C18_QueryReferencesResolvesAll ==
  (outcome = "fulfilled" /\ Has(primary.internal, "queryReferences")) =>
    \A s \in AllSlots :
      (s.depth = 1 /\ s.was.reference_to # AssetKind /\ Len(s.was.values) > 0)
        => Expanded(s)

\* skip and limit were both set on the chain
PagingSet ==
  Has(primary.before.internal, "skip") /\ Has(primary.before.internal, "limit")

\* the documents of the resolved result that match the predicate, from index
\* skip on, at most limit of them
PageOfMatches(skipNo, limitNo) ==
  LET sifted == Sift(result.items, primary.internal["queryReferences"])
  IN SubSeq(sifted, Min(skipNo, Len(sifted)) + 1,
            Min(skipNo + limitNo, Len(sifted)))

\* C19: with queryReferences the primary fetch carries neither limit nor
\* skip, and the result is the page of the resolved documents matching the
\* predicate that starts at skip and holds at most limit documents.
C19_PageAfterSift ==
  (Executed /\ Has(primary.internal, "queryReferences")) =>
    /\ primary.limit = 0
    /\ primary.skip = 0
    /\ (outcome = "fulfilled" /\ PagingSet) =>
         Delivered = PageOfMatches(primary.before.internal["skip"],
                                   primary.before.internal["limit"])

\* ------------------------------------------------- the setters, observed

\* the argument is not a non-empty array
NotAList(a) == a.ty # "array" \/ Len(a.items) = 0

\* the call that attempt records has an argument that the setter must refuse
InvalidCall(at) ==
  \/ /\ at.op \in {c[1] : c \in Comparisons}
     /\ at.a.ty # "string" \/ at.b.ty = "undefined"
  \/ /\ at.op \in {c[1] : c \in Memberships}
     /\ at.a.ty # "string" \/ NotAList(at.b)
  \/ /\ at.op \in {c[1] : c \in Existences} \cup {"regex"}
     /\ at.a.ty # "string"
  \/ /\ at.op \in {c[1] : c \in Projections} \cup {"tags"}
     /\ NotAList(at.a)
  \/ /\ at.op \in Pagings
     /\ at.a.ty # "number" \/ at.a.n < 0
  \/ /\ at.op = "language"
     /\ at.a.ty # "string" \/ at.a.s \notin LocaleCodes
  \/ /\ at.op = "queryReferences"
     /\ at.a.ty # "object"

\* C20: a setter called with an invalid argument throws, issues no store
\* operation and leaves q and internal as they were before the call.
C20_InvalidArgumentThrows ==
  [][(attempt'.no # attempt.no /\ InvalidCall(attempt')) =>
       /\ attempt'.threw
       /\ q' = q
       /\ internal' = internal
       /\ primary' = primary
       /\ fetches' = fetches]_vars

\* the setters that need a content kind
KindSetters == Pagings \cup {c[1] : c \in Sorts} \cup {"entry", "entries"}

\* the call that attempt records has arguments that the setter accepts
ValidKindCall(at) ==
  \/ at.op \in Pagings /\ at.a.ty = "number" /\ at.a.n >= 0
  \/ at.op \in {c[1] : c \in Sorts} /\ at.a.ty = "string" /\ at.a.s # ""
  \/ at.op = "entry" /\ at.a.ty \in {"string", "undefined"}
  \/ at.op = "entries"

\* the keys of the object now that the object old does not hold as they are
Touched(old, now) ==
  {k \in (DOMAIN old) \cup (DOMAIN now) : ~(Has(old, k) /\ Has(now, k) /\ old[k] = now[k])}

FilterSetters ==
  {c[1] : c \in Comparisons \cup Memberships \cup Existences \cup Logicals}
    \cup {"query", "regex", "tags", "where"}

\* C22: a filter method called on a builder on which no content kind was
\* selected throws, and writes nothing into q.
C22_FilterNeedsKind ==
  [][(/\ attempt'.no # attempt.no
      /\ attempt'.op \in FilterSetters
      /\ ~Has(q, "content_type_uid")) =>
       /\ attempt'.threw
       /\ q' = q]_vars

\* the operator that a comparison setter writes
OperatorOf(op) ==
  IF op \in {"exists", "notExists"} THEN "$exists"
  ELSE (CHOOSE c \in Comparisons \cup Memberships : c[1] = op)[2]

\* the (field, operator) pairs that the filter tree qq.query constrains
Constrained(qq) ==
  IF Has(qq, "query")
  THEN {c \in (DOMAIN qq["query"]) \X {"$lt", "$lte", "$gt", "$gte", "$ne", "$in",
                                       "$nin", "$exists", "$regex", "$options"} :
          /\ qq["query"][c[1]].node = "object"
          /\ c[2] \in DOMAIN qq["query"][c[1]].ops}
  ELSE {}

\* C23: after a comparison setter has returned, every (field, operator,
\* value) constraint that was in the filter tree before the call is still in
\* it, earlier operators on the same field included (only the value of the
\* field's operator that the call itself writes is replaced).
C23_ComparisonsAdditive ==
  [][(/\ attempt'.no # attempt.no
      /\ attempt'.op \in {c[1] : c \in Comparisons \cup Memberships \cup Existences}
      /\ ~attempt'.threw) =>
       \A c \in Constrained(q) :
         c # <<attempt'.a.s, OperatorOf(attempt'.op)>> =>
           /\ c \in Constrained(q')
           /\ q'["query"][c[1]].ops[c[2]] = q["query"][c[1]].ops[c[2]]]_vars

\* the part of C23 that concerns the constraints on other fields
C23_OtherFieldsKept ==
  [][(/\ attempt'.no # attempt.no
      /\ attempt'.op \in {c[1] : c \in Comparisons \cup Memberships \cup Existences}
      /\ ~attempt'.threw) =>
       \A c \in Constrained(q) :
         c[1] # attempt'.a.s =>
           /\ c \in Constrained(q')
           /\ q'["query"][c[1]].ops[c[2]] = q["query"][c[1]].ops[c[2]]]_vars

\* ------------------------------------------------ the projection, observed

\* the projection that find() hands to the store
Compiled == primary.internal["projections"]

\* only() was called on the chain: a field is marked included
InclusionSet ==
  /\ Has(primary.before.internal, "projections")
  /\ \E k \in DOMAIN primary.before.internal["projections"] :
       primary.before.internal["projections"][k] = 1

\* C24: the projection compiled for the store is purely an inclusion
\* projection or purely an exclusion projection: when an inclusion list was
\* set no field of it is marked excluded, be it by except() or by the
\* baseline default, and otherwise no field is marked included.
C24_PureProjection ==
  Executed =>
    \A k \in DOMAIN Compiled : Compiled[k] = (IF InclusionSet THEN 1 ELSE 0)

\* C24 where the _id of the baseline default is left out of account
C24_ListsNotMixed ==
  Executed =>
    \A k \in (DOMAIN Compiled) \ (DOMAIN ConfigProjections) :
      Compiled[k] = (IF InclusionSet THEN 1 ELSE 0)

\* ----------------------------------------------- excludeReferences, observed

\* no reference fetch is in flight and every descriptor of the result is as
\* the primary fetch returned it
Unresolved ==
  /\ fetches = {}
  /\ \A s \in AllSlots : s.now = s.was
  /\ outcome = "fulfilled" =>
       \A i \in 1..Len(Returned) :
         Returned[i] = StoreDoc(Returned[i].content_type_uid, Returned[i].uid)

KindOf(op) == IF op = "asset" THEN AssetKind ELSE SchemaKind

\* the key of the envelope for a single document of that kind
KeyOf(op) == IF op = "asset" THEN "asset" ELSE "content_type"

\* the first document of the kind in the store
FirstOf(kind) ==
  store[CHOOSE i \in 1..Len(store) :
          /\ store[i].content_type_uid = kind
          /\ \A j \in 1..(i - 1) : store[j].content_type_uid # kind]

\* C26: after asset() or schema() without uid the compiled filter
\* constrains content_type_uid to the asset kind (the schema kind), and the
\* envelope returns the first document of that kind under the key asset
\* (content_type).
C26_KindWithoutUid ==
  (Executed /\ attempt.op \in {"asset", "schema"} /\ ~GivenUid(attempt.a)) =>
    /\ QValue(primary.query.filters, "content_type_uid") = KindOf(attempt.op)
    /\ outcome = "fulfilled" =>
         /\ Has(envelope.value, KeyOf(attempt.op))
         /\ envelope.value[KeyOf(attempt.op)].t = "doc"
         /\ envelope.value[KeyOf(attempt.op)].uid = FirstOf(KindOf(attempt.op)).uid

\* C26 for asset() and schema() with a uid: the filter is on the kind
C26_KindWithUid ==
  (Executed /\ attempt.op \in {"asset", "schema"} /\ GivenUid(attempt.a)) =>
    /\ QValue(primary.query.filters, "content_type_uid") = KindOf(attempt.op)
    /\ outcome = "fulfilled" => Has(envelope.value, KeyOf(attempt.op))

\* ------------------------------------------- path-restricted inclusion, observed

RECURSIVE PathSlots(_, _, _)
RECURSIVE PathSlotsOf(_, _, _)

\* Every property of the resolved object now that holds, or held, a
\* reference descriptor, with the descriptor as the store holds it (was) and
\* its dotted path from the root document; orig is the object as the store
\* holds it, dotted its own dotted path.
PathSlots(now, orig, dotted) ==
  UNION {PathSlotsOf(now.fields[i], orig.fields[i], Append(dotted, i))
           : i \in 1..Len(orig.fields)}

PathSlotsOf(now, was, dotted) ==
  IF was.t = "ref"
  THEN {[now |-> now, was |-> was, dotted |-> dotted]}
       \cup (IF now.t = "doc"
             THEN PathSlots(now, StoreDoc(now.content_type_uid, now.uid), dotted)
             ELSE IF now.t = "list"
             THEN UNION {PathSlots(now.items[j],
                                   StoreDoc(now.items[j].content_type_uid, now.items[j].uid),
                                   dotted) : j \in 1..Len(now.items)}
             ELSE {})
  ELSE UNION {PathSlotsOf(now.fields[i], was.fields[i], Append(dotted, i))
                : i \in 1..Len(was.fields)}

\* the slots of the result array, each root document being a resolution root
AllPathSlots ==
  IF result.t = "list"
  THEN UNION {PathSlots(result.items[i],
                        StoreDoc(result.items[i].content_type_uid, result.items[i].uid),
                        <<>>)
              : i \in 1..Len(result.items)}
  ELSE {}

\* include(paths) was called on the chain that is executed
IncludedPaths ==
  IF Executed /\ Has(primary.internal, "includeSpecificReferences")
  THEN primary.internal["includeSpecificReferences"]
  ELSE <<>>

RECURSIVE OwnEdges(_, _, _)
\* The parent -> child edges that the resolution of the subtree now records:
\* one for every document that replaced a descriptor, from the nearest
\* enclosing document with a uid (pu). was is the value as the store holds it.
OwnEdges(now, was, pu) ==
  IF was.t = "ref"
  THEN IF now.t = "doc"
       THEN {<<pu, now.uid>>}
            \cup OwnEdges(now, StoreDoc(now.content_type_uid, now.uid), pu)
       ELSE IF now.t = "list"
       THEN UNION {{<<pu, now.items[j].uid>>}
                   \cup OwnEdges(now.items[j],
                                 StoreDoc(now.items[j].content_type_uid, now.items[j].uid),
                                 pu) : j \in 1..Len(now.items)}
       ELSE {}
  ELSE LET p == IF was.t = "doc" /\ was.uid # NoUid THEN was.uid ELSE pu
       IN UNION {OwnEdges(Kids(now)[i], Kids(was)[i], p) : i \in 1..Len(Kids(was))}

RECURSIVE ReachedBy(_, _, _)
\* the uids reachable from the set from by one to k of the edges
ReachedBy(from, edges, k) ==
  IF k = 0 THEN {}
  ELSE LET next == {e[2] : e \in {e \in edges : e[1] \in from}}
       IN next \cup ReachedBy(next, edges, k - 1)

\* the uids of values that the store holds and that the slot does not show
Dropped(s, locale) ==
  {u \in Range(s.was.values) :
     /\ InStore(s.was.reference_to, u, locale)
     /\ IF s.now.t = "doc" THEN s.now.uid # u
        ELSE IF s.now.t = "list" THEN ~Contains(ListUids(s.now.items), u)
        ELSE TRUE}

\* the root document i of the result, as the store holds it
RootDoc(i) == StoreDoc(result.items[i].content_type_uid, result.items[i].uid)

\* C28: each root document is resolved against its own ancestry map: when
\* find() has resolved with includeReferences, a uid that it did not expand
\* below a root was judged cyclic on the edges recorded in the subtree of
\* that root alone, so it lies on a cycle of those edges.
C28_AncestryPerRoot ==
  (/\ outcome = "fulfilled"
   /\ Ran("includeReferences")
   /\ ~SkipsResolution(primary.internal)) =>
    \A i \in 1..Len(result.items) :
      LET own == OwnEdges(result.items[i], RootDoc(i), NoUid)
      IN \A s \in Slots(result.items[i], RootDoc(i), 1) :
           s.was.reference_to # AssetKind =>
             \A u \in Dropped(s, QValue(primary.q, "locale")) :
               u \in ReachedBy({u}, own, Cardinality(AllUids))

\* C28 for a result of one root document
C28_SingleRoot ==
  (Executed /\ Len(raw.docs) <= 1) => C28_AncestryPerRoot

\* ---------------------------------------------------------------- C29

\* the children that the ancestry map holds for the parent p
ChildrenOf(refs, p) == IF Has(refs, p) THEN Range(refs[p]) ELSE {}

\* the uids of the documents that stand at the value v
UidsAt(v) ==
  IF v.t = "doc" THEN {v.uid}
  ELSE IF v.t = "list" THEN {v.items[j].uid : j \in 1..Len(v.items)}
  ELSE {}

\* no parent of the ancestry map holds a child twice
NoDuplicates(refs) ==
  \A p \in DOMAIN refs : Cardinality(Range(refs[p])) = Len(refs[p])

\* one step of a resolution pass: the child set of every parent only grows,
\* and a fetch that completes leaves the documents it brought among the
\* children of its parent
C29_Grows ==
  primary' = primary =>
    /\ \A p \in DOMAIN references :
         ChildrenOf(references, p) \subseteq ChildrenOf(references', p)
    /\ \A f \in fetches \ fetches' :
         (f.parentUid # NoUid /\ result' # result) =>
           UidsAt(GetAt(result', f.path)) \subseteq ChildrenOf(references', f.parentUid)

\* once every fetch of a pass has completed, the ancestry map holds, under
\* each parent, every child that stands expanded below that parent in the
\* result, and holds none twice
C29_Complete ==
  (primary.state = "done" /\ fetches = {} /\ ~SkipsResolution(primary.internal)) =>
    /\ NoDuplicates(references)
    /\ \A i \in 1..Len(result.items) :
         \A e \in OwnEdges(result.items[i], RootDoc(i), NoUid) :
           e[1] # NoUid => e[2] \in ChildrenOf(references, e[1])

\* C29: no update of the ancestry map is lost: during a resolution pass the
\* child set of a parent only grows, whatever the order in which sibling
\* fetches complete, and once all of them have completed references[parent]
\* holds every child that any of them fetched, without duplicates.
C29_NoLostUpdate == []C29_Complete /\ [][C29_Grows]_vars

\* two sibling fetches have recorded different children under one parent
\* and the pass is over
C29_Witness ==
  /\ primary.state = "done"
  /\ fetches = {}
  /\ outcome = "fulfilled"
  /\ \E i \in 1..Len(result.items) :
       LET d == result.items[i]
       IN /\ Len(d.fields) >= 2
          /\ d.fields[1].t = "doc"
          /\ d.fields[2].t = "doc"
          /\ d.fields[1].uid # d.fields[2].uid
          /\ {d.fields[1].uid, d.fields[2].uid} \subseteq ChildrenOf(references, d.uid)

\* ---------------------------------------------------------------- C30

\* the descriptor of the slot is one that includeReferencesI expands, and,
\* on the ancestry map refs, it has a uid to fetch
PassesCheck(s, inc, refs) ==
  /\ Expandable(s.was, inc)
  /\ Len(s.was.values) > 0
  /\ Len(UidsToFetch(s.was, refs)) > 0

\* C30: find() fulfils only after every reference fetch of its resolution,
\* at every nesting level, has completed and has been substituted: in the
\* step that delivers the envelope no fetch is left in flight, and every
\* expandable descriptor that passes the cycle check has been replaced.
C30_FulfilsAfterAll ==
  [][(outcome = "pending" /\ outcome' = "fulfilled") =>
       /\ fetches' = {}
       /\ ~SkipsResolution(primary'.internal) =>
            \A s \in AllSlots' :
              PassesCheck(s, Flag(primary'.internal, "includeReferences"), references')
                => s.now # s.was]_vars

\* find() has fulfilled after fetches at two nesting levels, with a
\* descriptor replaced at the second level and another left as it was
C30_Witness ==
  /\ outcome = "fulfilled"
  /\ primary.state = "done"
  /\ Ran("includeReferences")
  /\ fetches = {}
  /\ \E s \in AllSlots : s.depth >= 2 /\ Expanded(s)
  /\ \E s \in AllSlots : ~Expanded(s)

\* ---------------------------------------------------------------- C31

\* the slot holds a descriptor of entries with uids that
\* includeReferencesI expands under includeReferences
EntryDescriptor(s) ==
  /\ s.was.t = "ref"
  /\ s.was.reference_to # AssetKind
  /\ Len(s.was.values) > 0

\* C31: an expandable descriptor of entries whose uids are all judged cyclic
\* is replaced by an empty sequence: with every fetch substituted, a result
\* that find() delivers with includeReferences holds no such descriptor as
\* the store holds it.
C31_CyclicBecomesEmpty ==
  (/\ outcome = "fulfilled"
   /\ primary.state = "done"
   /\ Ran("includeReferences")
   /\ ~SkipsResolution(primary.internal)) =>
    \A s \in AllSlots : EntryDescriptor(s) => s.now # s.was

\* ---------------------------------------------------------------- C32

\* the worklist holds no uid twice, holds at most the uid asked and the
\* parent keys of the map, and the loop has not run past its end
C32_Bounded ==
  /\ Cardinality(Range(cc.list)) = Len(cc.list)
  /\ Len(cc.list) <= 1 + Cardinality(DOMAIN cc.mapping)
  /\ cc.i <= Len(cc.list) + 1

\* one iteration: the map and the uid asked are as they were, the worklist
\* is only extended, and the loop either ends or moves to the next uid
C32_Advances ==
  /\ cc'.mapping = cc.mapping
  /\ cc'.uid = cc.uid
  /\ SubSeq(cc'.list, 1, Len(cc.list)) = cc.list
  /\ \/ cc'.pc = "done" /\ cc'.i = cc.i
     \/ cc'.pc = "loop" /\ cc'.i = cc.i + 1

\* C32: checkCyclic(uid, map) terminates for every finite ancestry map, maps
\* with cycles and self-loops included, after examining each distinct uid of
\* its worklist at most once (at most 1 + number of parent keys
\* iterations), and it never modifies the map. The index i of the loop is
\* the variant: every iteration that does not end the loop adds one to it,
\* and it never exceeds 2 + the number of parent keys.
C32_Terminates == []C32_Bounded /\ [][C32_Advances]_vars

\* checkCyclic has returned false after walking round a cycle of the map
\* that the uid asked is not on
C32_Witness ==
  /\ cc.pc = "done"
  /\ ~cc.flag
  /\ Len(cc.list) >= 3
  /\ \E u \in Range(cc.list) \ {cc.uid} : checkCyclic(u, cc.mapping)

\* ---------------------------------------------------------------- C33

\* the documents that the fetch f matches, in the order of the store
InStoreOrder(f) ==
  LET S == RefMatches(f)
  IN Answer(CHOOSE o \in Orderings(S) : \A i, j \in 1..Len(o) : i < j => o[i] < o[j])

\* the fetches of fs, one after the other: the one with the least path first
FirstFetch(fs) ==
  CHOOSE f \in fs : \A g \in fs :
    \/ Len(f.path) < Len(g.path)
    \/ /\ Len(f.path) = Len(g.path)
       /\ \A k \in 1..Len(f.path) :
            (\A l \in 1..(k - 1) : f.path[l] = g.path[l]) => f.path[k] <= g.path[k]

RECURSIVE Settle(_, _, _, _)
\* the tree that the resolver leaves when the fetches fs complete one after
\* the other, each before the next, level by level
Settle(tree, refs, fs, inc) ==
  IF fs = {} THEN tree
  ELSE LET f == FirstFetch(fs)
           docs == InStoreOrder(f)
           refs2 == IF Len(docs) = 0 THEN refs ELSE Record(refs, f.parentUid, docs)
           w == IF Len(docs) = 0
                THEN [tree |-> List(<<>>), fetches |-> {}]
                ELSE Walk(Substitute(GetAt(tree, f.path), f.uids, docs), f.path,
                          f.parentUid, [locale |-> f.locale, refs |-> refs2, inc |-> inc])
       IN Settle(SetAt(tree, f.path, w.tree), refs2, (fs \ {f}) \cup w.fetches, inc)

\* the documents that the primary fetch of the query executed left to resolve
KeptOf ==
  IF ~Has(primary.internal, "queryReferences") /\ Flag(primary.internal, "includeSchema")
  THEN Remaining(raw.docs, QValue(primary.q, "content_type_uid"))
  ELSE raw.docs

\* the result of the query executed when its fetches complete in the order
\* of Settle
Settled ==
  LET inc == Flag(primary.internal, "includeReferences")
      w == Walk(List(KeptOf), <<>>, NoUid,
                [locale |-> QValue(primary.q, "locale"), refs |-> EmptyObj, inc |-> inc])
  IN Settle(w.tree, EmptyObj, w.fetches, inc)

\* C33: the resolved result of find() with includeReferences is the same
\* for every order in which the reference fetches complete: whatever the
\* interleaving, find() delivers the tree that one fixed order of the
\* completions gives.
C33_OrderIndependent ==
  (/\ outcome = "fulfilled"
   /\ primary.state = "done"
   /\ Ran("includeReferences")
   /\ ~SkipsResolution(primary.internal)) =>
    result = Settled

\* C33 for a primary result of one root document
C33_SingleRoot == Len(raw.docs) <= 1 => C33_OrderIndependent

\* ---------------------------------------------------------------- C34

\* C34: executing a query never changes the configured baseline
\* projection: config.projections stays as the original configuration has
\* it, and a chain that sets no projection directive is compiled with
\* exactly that baseline, whatever chains with only() or except() were
\* executed before it.
C34_BaselineKept ==
  /\ config.projections = ConfigProjections
  /\ (Executed /\ ~Has(primary.before.internal, "projections")) =>
       Compiled = ConfigProjections

\* ---------------------------------------------------------------- C37

\* C37: a builder whose execution has completed cannot be executed again:
\* find() or findOne() called on a Stack whose query has settled is
\* rejected, issues no fetch to the store and delivers no envelope.
C37_NoSecondExecution ==
  [][(phase = "settled" /\ phase' # "building") =>
       /\ phase' = "settled"
       /\ outcome' = "rejected"
       /\ envelope'.kind = "error"
       /\ primary' = primary
       /\ fetches' = fetches]_vars

\* find() was called again on a builder whose first find() had fulfilled,
\* and was rejected with the TypeError
C37_Witness ==
  /\ primary.state = "done"
  /\ raw.matched > 0
  /\ phase = "settled"
  /\ outcome = "rejected"
  /\ envelope = [kind |-> "error", error |-> "TypeError"]

\* ---------------------------------------------------------------- C38

\* the kind-selecting calls
KindSelectors == {"contentType", "asset", "assets", "schema", "schemas"}

\* q and internal of the root Stack in the next state
RootNext ==
  IF root'.kept = "this" THEN [q |-> q', internal |-> internal']
  ELSE [q |-> root'.q, internal |-> root'.internal]

\* C38: every kind-selecting call made on the root Stack returns a builder
\* whose q holds nothing but the kind and uid selected and whose internal
\* holds nothing but the single-result settings, and leaves q and internal
\* of the root Stack as they were.
C38_FreshBuilder ==
  [][(attempt'.no # attempt.no /\ attempt'.op \in KindSelectors /\ root.kept = "this") =>
       /\ DOMAIN q' \subseteq {"content_type_uid", "uid"}
       /\ DOMAIN internal' \subseteq {"limit", "single"}
       /\ RootNext = [q |-> q, internal |-> internal]]_vars

\* C38 for the calls that construct a Stack: contentType, asset, assets
C38_ConstructingCalls ==
  [][(/\ attempt'.no # attempt.no
      /\ attempt'.op \in {"contentType", "asset", "assets"}
      /\ root.kept = "this") =>
       /\ DOMAIN q' \subseteq {"content_type_uid", "uid"}
       /\ DOMAIN internal' \subseteq {"limit", "single"}
       /\ RootNext = [q |-> q, internal |-> internal]]_vars

\* ---------------------------------------------------------------- C35

\* C35: the number of documents returned under entries, assets or
\* content_types never exceeds the limit resolved for the query, the one
\* given to limit() or else the configured default, also with includeSchema
\* when the store holds no schema document of the content type, and also
\* with queryReferences.
C35_WithinLimit ==
  (outcome = "fulfilled" /\ primary.state = "done") =>
    Len(Returned) <= ResolvedLimit

\* C35 for the queries without includeSchema
C35_WithoutSchema ==
  (outcome = "fulfilled" /\ primary.state = "done" /\ ~Ran("includeSchema")) =>
    Len(Returned) <= ResolvedLimit

\* ---------------------------------------------------------------- C36

\* the locale that the chain resolves to: the one passed to language(),
\* else the first configured locale
ResolvedLocale ==
  IF Has(primary.before.q, "locale") THEN primary.before.q["locale"] ELSE Locales[1]

\* C36: the primary filter compiled by preProcess constrains
\* content_type_uid to the content kind selected on the builder and locale
\* to the resolved locale, whatever raw fragments were added through query()
\* or passed to find(query).
C36_KindAndLocaleKept ==
  (Executed /\ Has(primary.before.q, "content_type_uid")) =>
    /\ QValue(primary.query.filters, "content_type_uid")
         = primary.before.q["content_type_uid"]
    /\ QValue(primary.query.filters, "locale") = ResolvedLocale

\* C36 for chains whose fragments hold neither key
C36_OtherFragments ==
  (/\ Executed
   /\ Has(primary.before.q, "content_type_uid")
   /\ {"content_type_uid", "locale"} \cap DOMAIN QValue(primary.q, "query") = {})
    => C36_KindAndLocaleKept

\* ---------------------------------------------------------------- C39

\* the schema slot that includeSchema adds to the limit
SchemaSlot == IF Flag(primary.internal, "includeSchema") THEN 1 ELSE 0

\* the limit that the chain asked for: the argument of limit(), else the default
AskedLimit ==
  IF Has(primary.before.internal, "limit")
  THEN primary.before.internal["limit"]
  ELSE ConfigLimit

\* the skip that the chain asked for: the argument of skip(), else the default
AskedSkip ==
  IF Has(primary.before.internal, "skip")
  THEN primary.before.internal["skip"]
  ELSE ConfigSkip

\* C39: the limit and the skip that find() sends to the store are exactly the
\* arguments n of limit(n) (plus one with includeSchema) and m of skip(m), for
\* every n >= 0 and m >= 0; the configured defaults are used only when limit()
\* or skip() was never called, so limit(0) is not replaced by the default.
C39_ExactPaging ==
  (Executed /\ ~Has(primary.internal, "queryReferences")) =>
    /\ primary.limit = AskedLimit + SchemaSlot
    /\ primary.skip = AskedSkip

\* C39 for the chains that did not call limit(0)
C39_PositiveLimit ==
  (/\ Executed
   /\ ~Has(primary.internal, "queryReferences")
   /\ AskedLimit # 0)
    => C39_ExactPaging

\* ---------------------------------------------------------------- C40

\* the root documents that the primary fetch hands to reference resolution
RootsFetched == Len(raw.docs)

\* C40: in single-result mode, however it was entered (entry(), asset(uid),
\* schema(uid) or findOne() on a multi-result chain), the primary fetch asks
\* the store for at most one document (plus the schema slot of includeSchema),
\* so references are resolved for at most one root document.
C40_SingleFetchesOne ==
  Ran("single") =>
    /\ primary.limit = 1 + SchemaSlot
    /\ (primary.state = "done" => RootsFetched <= 1)

\* the limit of C40 for the chains that entered single-result mode through
\* entry(), asset(uid) or schema(uid), which set the limit 1, and called
\* neither limit() nor queryReferences() afterwards
C40_SingleSelectors ==
  (/\ Ran("single")
   /\ Has(primary.before.internal, "limit")
   /\ primary.before.internal["limit"] = 1
   /\ ~Has(primary.internal, "queryReferences"))
    => primary.limit = 1 + SchemaSlot

====
